---- MODULE Spec2Model ----
(***************************************************************************)
(* Verification model of the multi-tenant routing substrate of the Ada     *)
(* interaction engine (backend/app): the session registry, the fan-out bus *)
(* for voice frames, the connection registry with its state machine, and   *)
(* the per-connection worker.  Every component has its own specification   *)
(* over the shared state; a component's specification leaves the state of  *)
(* the other components at its initial value.                              *)
(***************************************************************************)
EXTENDS Integers, Sequences, FiniteSets, TLC

\* ------------------------------------------------------------------------
\* Bounds of the model (sizes of the id pools)
\* ------------------------------------------------------------------------
NumSessions == 2
NumWs == 2
NumRtc == 2
NumThreads == 2
NumSessThreads == 1

SessionIds == 1..NumSessions
WsIds == 1..NumWs
RtcIds == 1..NumRtc
ThreadIds == 1..NumThreads
\* The thread ids offered where a thread id is only stored or copied: to the
\* session registry (current_thread_id, thread_history) and in the records
\* of a worker.
SessThreadIds == 1..NumSessThreads

\* Python's None; ids are non-empty strings, modelled as positive numbers.
None == 0

VARIABLES
    \* session registry (app/session_manager.py)
    sessions,          \* session_id -> SessionInfo (a dict: only known ids)
    ws_to_session,     \* ws_connection_id -> session_id
    rtc_to_session,    \* rtc_connection_id -> session_id
    stale_sessions,    \* cleanup_stale_sessions: the ids of its local list still to remove
    sm_last,           \* the last registry operation, its arguments and its result
    \* media offers (app/webrtc.py)
    agent_conn,        \* pcs_map: pc_id -> connection_id of the agent built for it
    routed,            \* the last voice frame published by a media pipeline
    \* fan-out bus (app/voice_broadcast_manager.py)
    subscribers,       \* _subscribers: connection_id -> VoiceSubscription
    stats,             \* _stats
    in_flight,         \* broadcasts suspended in gather: the delivery tasks not yet run
    \* connection registry and control-channel handler
    \* (app/connection_manager.py, app/routes/per_connection_chat.py)
    connections,       \* ConnectionManager.connections: its keys, in insertion order
    context,           \* the ConnectionContext object made for each connection id
    websocket_open,    \* whether the client still holds its end of the websocket
    handler_pc,        \* where each websocket handler is suspended
    cleanup_pc,        \* where each caller's cleanup_connection is suspended
    handles,           \* the external objects of a connection and the calls made on them
    tasks,             \* sender and receiver tasks of _run_connection_loops
    processor,         \* the PerConnectionProcessor of a connection and its task
    transitions,       \* every (old_state, state) change made by update_state
    sweep,             \* _periodic_cleanup: its task and its stale_connections list
    stop_call,         \* ConnectionManager.stop: its position and its connection_ids list
    \* media pipelines of the connections (app/voice_manager.py)
    injected,          \* connection_id -> the connections whose voice-over its agent spoke
    \* enhancement decider (src/mcp/enhanced_mcp_client.py)
    decider,           \* the call of make_enhancement_decision_streaming in progress
    \* UI provider (app/viz_provider_factory.py)
    viz,               \* the call of OpenAIProvider.stream_response in progress
    \* connection configuration (app/models.py)
    client_config,     \* the last MCPClientConfig that was constructed
    \* control channels (the websockets of the connections)
    channel,           \* connection -> terminal frames of its turns written to it
    \* voice manager (app/voice_manager.py)
    thread_to_connection_map,  \* voice_thread_id -> connection_id
    \* connection mapper (app/connection_mapper.py)
    mapper             \* the fields of the ConnectionMapper singleton

sessVars == <<sessions, ws_to_session, rtc_to_session, stale_sessions, sm_last>>
routeVars == <<agent_conn, routed>>
busVars == <<subscribers, stats, in_flight>>
connVars == <<connections, context, websocket_open, handler_pc, cleanup_pc,
              handles, tasks, processor, transitions, sweep, stop_call>>
voiceVars == <<injected>>
moreVars == <<viz, client_config, channel, thread_to_connection_map, mapper>>
notViz == <<sessVars, routeVars, busVars, connVars, voiceVars, decider,
            client_config, channel, thread_to_connection_map, mapper>>
notConfig == <<sessVars, routeVars, busVars, connVars, voiceVars, decider,
               viz, channel, thread_to_connection_map, mapper>>
notChannel == <<sessVars, routeVars, voiceVars, decider, viz, client_config,
                thread_to_connection_map, mapper>>
notVoiceManager == <<sessVars, routeVars, voiceVars, decider, viz,
                     client_config, channel, mapper>>
notMapper == <<sessVars, routeVars, busVars, connVars, voiceVars, decider,
               viz, client_config, channel, thread_to_connection_map>>
vars == <<sessions, ws_to_session, rtc_to_session, stale_sessions, sm_last,
          agent_conn, routed, subscribers, stats, in_flight,
          connections, context, websocket_open, handler_pc, cleanup_pc,
          handles, tasks, processor, transitions, sweep, stop_call, injected,
          decider, viz, client_config, channel, thread_to_connection_map,
          mapper>>

\* ------------------------------------------------------------------------
\* Python dicts
\* ------------------------------------------------------------------------
EmptyDict == [k \in {} |-> None]
DictGet(d, k) == IF k \in DOMAIN d THEN d[k] ELSE None
DictSet(d, k, v) == [x \in (DOMAIN d) \cup {k} |-> IF x = k THEN v ELSE d[x]]
DictPop(d, k) == [x \in (DOMAIN d) \ {k} |-> d[x]]
Range(s) == {s[i] : i \in DOMAIN s}

\* ========================================================================
\* Session registry: app/session_manager.py
\* ========================================================================

\* SessionInfo(session_id=...): every slot empty.  The timestamps created_at
\* and last_activity are not kept: how long a session has been idle is an
\* input of the sweep (see cleanup_stale_sessions_scan).
SessionInfo ==
    [current_thread_id |-> None,
     current_ws_connection_id |-> None,
     current_rtc_connection_id |-> None,
     thread_history |-> <<>>]

\* sm_last: the operation, the session it named (for unbinds: the session the
\* id resolved to), the id, the return value and, for a bind, the id that the
\* slot held before.
LastOp(op, session_id, id, result, old) ==
    [op |-> op, session_id |-> session_id, id |-> id, result |-> result,
     old |-> old]
NoOp == LastOp("init", None, None, FALSE, None)

\* "Clean up old WebSocket connection for this session"
evict_old_ws_keep(index, old_ws_id) == index
evict_old_ws(index, old_ws_id) ==
    IF old_ws_id # None THEN DictPop(index, old_ws_id) ELSE index

\* "Clean up old RTC connection for this session"
evict_old_rtc(index, old_rtc_id) ==
    IF old_rtc_id # None THEN DictPop(index, old_rtc_id) ELSE index

\* "if thread_id not in session.thread_history: append"
add_thread(history, thread_id) ==
    IF thread_id \in Range(history) THEN history ELSE Append(history, thread_id)

register_websocket_connection(session_id, ws_connection_id, thread_id) ==
    LET known == session_id \in DOMAIN sessions
        session == IF known THEN sessions[session_id] ELSE SessionInfo
        old_ws_id == session.current_ws_connection_id
        index == evict_old_ws(ws_to_session, old_ws_id)
    IN /\ sessions' = DictSet(sessions, session_id,
              [session EXCEPT !.current_ws_connection_id = ws_connection_id,
                              !.current_thread_id = thread_id,
                              !.thread_history = add_thread(@, thread_id)])
       /\ ws_to_session' = DictSet(index, ws_connection_id, session_id)
       /\ sm_last' = LastOp("register_ws", session_id, ws_connection_id, TRUE,
                             old_ws_id)
       /\ UNCHANGED <<rtc_to_session, stale_sessions>>

\* The guard of register_rtc_connection: "if session_id not in self.sessions:
\* return False".
rtc_bind_allowed_needs_ws(session_id) ==
    /\ session_id \in DOMAIN sessions
    /\ sessions[session_id].current_ws_connection_id # None
rtc_bind_allowed(session_id) == session_id \in DOMAIN sessions

register_rtc_connection(session_id, rtc_connection_id, thread_id) ==
    IF ~rtc_bind_allowed(session_id)
    THEN /\ sm_last' = LastOp("register_rtc", session_id, rtc_connection_id,
                              FALSE, None)
         /\ UNCHANGED <<sessions, ws_to_session, rtc_to_session, stale_sessions>>
    ELSE LET session == sessions[session_id]
             old_rtc_id == session.current_rtc_connection_id
             index == evict_old_rtc(rtc_to_session, old_rtc_id)
         IN /\ sessions' = [sessions EXCEPT ![session_id] =
                   [session EXCEPT !.current_thread_id = thread_id,
                                   !.current_rtc_connection_id = rtc_connection_id]]
            /\ rtc_to_session' = DictSet(index, rtc_connection_id, session_id)
            /\ sm_last' = LastOp("register_rtc", session_id, rtc_connection_id,
                                 TRUE, old_rtc_id)
            /\ UNCHANGED <<ws_to_session, stale_sessions>>

get_linked_ws_for_rtc(rtc_connection_id) ==
    LET session_id == DictGet(rtc_to_session, rtc_connection_id)
    IN IF session_id # None /\ session_id \in DOMAIN sessions
       THEN sessions[session_id].current_ws_connection_id
       ELSE None

get_linked_rtc_for_ws(ws_connection_id) ==
    LET session_id == DictGet(ws_to_session, ws_connection_id)
    IN IF session_id # None /\ session_id \in DOMAIN sessions
       THEN sessions[session_id].current_rtc_connection_id
       ELSE None

\* An unbind that clears the control slot of every session, whatever id the
\* slot holds.
unregister_ws_connection_any_slot(ws_connection_id) ==
    LET session_id == DictGet(ws_to_session, ws_connection_id)
    IN /\ ws_to_session' = DictPop(ws_to_session, ws_connection_id)
       /\ sessions' = [s \in DOMAIN sessions |->
                          [sessions[s] EXCEPT !.current_ws_connection_id = None]]
       /\ sm_last' = LastOp("unregister_ws", session_id, ws_connection_id,
                             session_id # None, None)
       /\ UNCHANGED <<rtc_to_session, stale_sessions>>
unregister_ws_connection(ws_connection_id) ==
    LET session_id == DictGet(ws_to_session, ws_connection_id)
        hit == /\ session_id # None
               /\ session_id \in DOMAIN sessions
               /\ sessions[session_id].current_ws_connection_id = ws_connection_id
    IN /\ ws_to_session' = DictPop(ws_to_session, ws_connection_id)
       /\ sessions' = IF hit
                      THEN [sessions EXCEPT ![session_id].current_ws_connection_id = None]
                      ELSE sessions
       /\ sm_last' = LastOp("unregister_ws", session_id, ws_connection_id, hit,
                             None)
       /\ UNCHANGED <<rtc_to_session, stale_sessions>>

unregister_rtc_connection(rtc_connection_id) ==
    LET session_id == DictGet(rtc_to_session, rtc_connection_id)
        hit == /\ session_id # None
               /\ session_id \in DOMAIN sessions
               /\ sessions[session_id].current_rtc_connection_id = rtc_connection_id
    IN /\ rtc_to_session' = DictPop(rtc_to_session, rtc_connection_id)
       /\ sessions' = IF hit
                      THEN [sessions EXCEPT ![session_id].current_rtc_connection_id = None]
                      ELSE sessions
       /\ sm_last' = LastOp("unregister_rtc", session_id, rtc_connection_id, hit,
                             None)
       /\ UNCHANGED <<ws_to_session, stale_sessions>>

\* cleanup_stale_sessions, first critical section: collect the ids whose
\* now - last_activity exceeds max_age.  The clock is outside the model, so
\* any non-empty set of known sessions can be the stale ones.  The list is
\* kept as a set: the removals below take its elements in any order, which
\* covers every insertion order of the dict.
cleanup_stale_sessions_scan ==
    /\ stale_sessions = {}
    /\ \E ids \in (SUBSET DOMAIN sessions) \ {{}} : stale_sessions' = ids
    /\ sm_last' = LastOp("scan", None, None, TRUE, None)
    /\ UNCHANGED <<sessions, ws_to_session, rtc_to_session>>

\* cleanup_stale_sessions, one iteration of the removal loop (one critical
\* section per session id).
cleanup_stale_sessions_remove ==
    /\ \E session_id \in stale_sessions :
         LET present == session_id \in DOMAIN sessions
             session == IF present THEN sessions[session_id] ELSE SessionInfo
             rest == stale_sessions \ {session_id}
         IN /\ sessions' = DictPop(sessions, session_id)
            /\ ws_to_session' =
                  IF session.current_ws_connection_id # None
                  THEN DictPop(ws_to_session, session.current_ws_connection_id)
                  ELSE ws_to_session
            /\ rtc_to_session' =
                  IF session.current_rtc_connection_id # None
                  THEN DictPop(rtc_to_session, session.current_rtc_connection_id)
                  ELSE rtc_to_session
            /\ stale_sessions' = rest
            /\ sm_last' = LastOp("cleanup", session_id, None, present, None)

\* A coroutine other than the sweep runs.  cleanup_stale_sessions awaits
\* nothing but the lock, which is free whenever a coroutine runs (no critical
\* section of the registry awaits), and acquiring a free lock does not
\* suspend: from its scan to its last removal no other coroutine runs.
other_coroutine_runs_any_time == TRUE
other_coroutine_runs == stale_sessions = {}

SessionNext ==
    \/ \E s \in SessionIds, w \in WsIds, t \in SessThreadIds :
          other_coroutine_runs /\
          register_websocket_connection(s, w, t) /\ UNCHANGED <<routeVars, busVars, connVars, voiceVars, decider, moreVars>>
    \/ \E s \in SessionIds, r \in RtcIds, t \in SessThreadIds :
          other_coroutine_runs /\
          register_rtc_connection(s, r, t) /\ UNCHANGED <<routeVars, busVars, connVars, voiceVars, decider, moreVars>>
    \/ \E w \in WsIds :
          other_coroutine_runs /\
          unregister_ws_connection(w) /\ UNCHANGED <<routeVars, busVars, connVars, voiceVars, decider, moreVars>>
    \/ \E r \in RtcIds :
          other_coroutine_runs /\
          unregister_rtc_connection(r) /\ UNCHANGED <<routeVars, busVars, connVars, voiceVars, decider, moreVars>>
    \/ cleanup_stale_sessions_scan /\ UNCHANGED <<routeVars, busVars, connVars, voiceVars, decider, moreVars>>
    \/ cleanup_stale_sessions_remove /\ UNCHANGED <<routeVars, busVars, connVars, voiceVars, decider, moreVars>>

\* ========================================================================
\* Media offers and the routing of voice frames: app/webrtc.py
\* ========================================================================

NoFrame == [pc_id |-> None, connection_id |-> None, linked |-> None]

\* A pc_id is generated for every new peer connection: it is not in pcs_map
\* and the session registry has never seen it.
FreshPc(pc_id) ==
    /\ pc_id \notin DOMAIN agent_conn
    /\ pc_id \notin DOMAIN rtc_to_session
    /\ \A s \in DOMAIN sessions : sessions[s].current_rtc_connection_id # pc_id

\* "Get the linked WebSocket connection for this session ... Use linked
\* WebSocket ID for message routing": the id the agent is built with.
\* linked_ws_id is the registry's answer after the registration.
agent_connection_id(linked_ws_id, backend_connection_id) ==
    IF linked_ws_id # None THEN linked_ws_id ELSE backend_connection_id

\* handle_offer, the branch that creates a new peer connection (a request
\* that names a pc_id of pcs_map only renegotiates and changes nothing here).
\* session_id and backend_connection_id are optional fields of the request.
handle_offer(pc_id, session_id, thread_id, backend_connection_id) ==
    /\ FreshPc(pc_id)
    /\ IF session_id # None
       THEN /\ register_rtc_connection(session_id, pc_id, thread_id)
            /\ agent_conn' = DictSet(agent_conn, pc_id,
                   agent_connection_id(get_linked_ws_for_rtc(pc_id)',
                                       backend_connection_id))
       ELSE /\ agent_conn' = DictSet(agent_conn, pc_id, backend_connection_id)
            /\ UNCHANGED sessVars
    /\ UNCHANGED routed

\* on_closed_with_agent_cleanup followed by default_on_closed.
on_closed_with_agent_cleanup(pc_id) ==
    /\ pc_id \in DOMAIN agent_conn
    /\ unregister_rtc_connection(pc_id)
    /\ agent_conn' = DictPop(agent_conn, pc_id)
    /\ UNCHANGED routed

\* The media pipeline of pc_id publishes a voice frame: the agent addresses
\* it to the connection id it was built with.  `linked` records the control
\* channel the session registry links to pc_id at that moment.
VoiceFrame(pc_id) ==
    /\ pc_id \in DOMAIN agent_conn
    /\ routed' = [pc_id |-> pc_id, connection_id |-> agent_conn[pc_id],
                  linked |-> get_linked_ws_for_rtc(pc_id)]
    /\ UNCHANGED <<agent_conn, sessVars>>

RouteNext ==
    \/ \E s \in SessionIds, w \in WsIds, t \in SessThreadIds :
          register_websocket_connection(s, w, t) /\ UNCHANGED <<routeVars, busVars, connVars, voiceVars, decider, moreVars>>
    \/ \E w \in WsIds : unregister_ws_connection(w) /\ UNCHANGED <<routeVars, busVars, connVars, voiceVars, decider, moreVars>>
    \/ \E pc \in RtcIds, s \in SessionIds \cup {None}, t \in SessThreadIds,
          b \in WsIds \cup {None} : handle_offer(pc, s, t, b) /\ UNCHANGED <<busVars, connVars, voiceVars, decider, moreVars>>
    \/ \E pc \in RtcIds : on_closed_with_agent_cleanup(pc) /\ UNCHANGED <<busVars, connVars, voiceVars, decider, moreVars>>
    \/ \E pc \in RtcIds : VoiceFrame(pc) /\ UNCHANGED <<busVars, connVars, voiceVars, decider, moreVars>>

\* ========================================================================
\* Fan-out bus: app/voice_broadcast_manager.py
\* ========================================================================

\* Capacity of a subscription queue (queue_maxsize), the number of broadcasts
\* that reach a subscriber, and the number of broadcasts suspended at once.
QueueMax == 2
MaxBroadcasts == 3
MaxInFlight == 1

voice_message_types ==
    {"user_transcription", "immediate_voice_response", "voice_response"}

\* The kinds of frame offered to broadcast: a voice kind and a non-voice kind.
BroadcastTypes == {"voice_response", "chat_token"}

\* A frame: message.get('type'), message.get('connection_id') and
\* message.get('threadId') or message.get('thread_id').  origin is the
\* connection whose worker built the frame (None for any other publisher).
Message(type, connection_id, thread_id, origin) ==
    [type |-> type, connection_id |-> connection_id, thread_id |-> thread_id,
     origin |-> origin]

BusMessages ==
    {Message(ty, c, t, None) :
        ty \in BroadcastTypes, c \in WsIds \cup {None}, t \in ThreadIds \cup {None}}

VoiceSubscription(connection_id, voice_thread_id) ==
    [connection_id |-> connection_id, voice_thread_id |-> voice_thread_id,
     queue |-> <<>>, message_count |-> 0]

NoStats ==
    [total_broadcasts |-> 0, total_deliveries |-> 0, failed_deliveries |-> 0,
     active_subscribers |-> 0]

matches_message_any_thread(subscription, message) ==
    IF message.type \notin voice_message_types THEN FALSE
    ELSE IF /\ message.connection_id # None
            /\ message.connection_id # subscription.connection_id THEN FALSE
    ELSE TRUE
matches_message(subscription, message) ==
    IF message.type \notin voice_message_types THEN FALSE
    ELSE IF /\ message.connection_id # None
            /\ message.connection_id # subscription.connection_id THEN FALSE
    ELSE IF /\ message.thread_id # None
            /\ subscription.voice_thread_id # None
            /\ message.thread_id # subscription.voice_thread_id THEN FALSE
    ELSE TRUE

\* A suspended broadcast holds delivery tasks that reference subscription
\* objects.  live: the connection ids whose task references the subscription
\* still registered; orphans: the ids whose task references a subscription
\* that has since been replaced or removed, with the length of its queue.
Batch(message, live, orphans) ==
    [message |-> message, live |-> live, orphans |-> orphans]

detach(batch, connection_id, qlen) ==
    IF connection_id \in batch.live
    THEN Batch(batch.message, batch.live \ {connection_id},
               DictSet(batch.orphans, connection_id, qlen))
    ELSE batch

detach_all(batches, connection_id, qlen) ==
    [i \in DOMAIN batches |-> detach(batches[i], connection_id, qlen)]

subscribe(connection_id, voice_thread_id) ==
    /\ subscribers' = DictSet(subscribers, connection_id,
                              VoiceSubscription(connection_id, voice_thread_id))
    /\ stats' = [stats EXCEPT !.active_subscribers =
                    Cardinality(DOMAIN subscribers \cup {connection_id})]
    /\ in_flight' = detach_all(in_flight, connection_id,
                       IF connection_id \in DOMAIN subscribers
                       THEN Len(subscribers[connection_id].queue) ELSE 0)

\* An unsubscribe that drops the popped subscription with its queue as it is.
unsubscribe_undrained(connection_id) ==
    IF connection_id \in DOMAIN subscribers
    THEN /\ subscribers' = DictPop(subscribers, connection_id)
         /\ stats' = [stats EXCEPT !.active_subscribers =
                         Cardinality(DOMAIN subscribers \ {connection_id})]
         /\ in_flight' = detach_all(in_flight, connection_id,
                            Len(subscribers[connection_id].queue))
    ELSE UNCHANGED busVars

\* The popped subscription's queue is emptied before it is dropped.
unsubscribe(connection_id) ==
    IF connection_id \in DOMAIN subscribers
    THEN /\ subscribers' = DictPop(subscribers, connection_id)
         /\ stats' = [stats EXCEPT !.active_subscribers =
                         Cardinality(DOMAIN subscribers \ {connection_id})]
         /\ in_flight' = detach_all(in_flight, connection_id, 0)
    ELSE UNCHANGED busVars

update_thread_id(connection_id, voice_thread_id) ==
    IF connection_id \in DOMAIN subscribers
    THEN /\ subscribers' = [subscribers EXCEPT
                               ![connection_id].voice_thread_id = voice_thread_id]
         /\ UNCHANGED <<stats, in_flight>>
    ELSE UNCHANGED busVars

\* broadcast up to its suspension in gather: the snapshot of the subscribers
\* and the choice of the matching ones.  Without a match it returns 0.
broadcast(message) ==
    /\ Len(in_flight) < MaxInFlight
    /\ stats.total_broadcasts + Len(in_flight) < MaxBroadcasts
    /\ LET matching_subscribers ==
              {c \in DOMAIN subscribers : matches_message(subscribers[c], message)}
       IN  IF matching_subscribers = {}
           THEN UNCHANGED busVars
           ELSE /\ in_flight' = Append(in_flight,
                                  Batch(message, matching_subscribers, EmptyDict))
                /\ UNCHANGED <<subscribers, stats>>

\* _deliver_message: put_nowait raises QueueFull on a full queue.
queue_full(qlen) == qlen >= QueueMax
deliver_message_evicting(subscription, message) ==
    IF queue_full(Len(subscription.queue))
    THEN [subscription EXCEPT !.queue = Append(Tail(@), message)]
    ELSE [subscription EXCEPT !.queue = Append(@, message),
                              !.message_count = @ + 1]
deliver_message(subscription, message) ==
    IF queue_full(Len(subscription.queue))
    THEN subscription
    ELSE [subscription EXCEPT !.queue = Append(@, message),
                              !.message_count = @ + 1]

\* The delivery tasks of the oldest suspended broadcast run one after the
\* other, then broadcast resumes and counts the results.
broadcast_deliver ==
    /\ in_flight # <<>>
    /\ LET batch == Head(in_flight)
           ok_live == {c \in batch.live : ~queue_full(Len(subscribers[c].queue))}
           ok_orphans == {c \in DOMAIN batch.orphans : ~queue_full(batch.orphans[c])}
           successful_deliveries == Cardinality(ok_live) + Cardinality(ok_orphans)
           failed == Cardinality(batch.live) + Cardinality(DOMAIN batch.orphans)
                        - successful_deliveries
           grow(b) == Batch(b.message, b.live,
                         [c \in DOMAIN b.orphans |->
                             IF c \in ok_orphans /\ c \notin batch.live
                             THEN b.orphans[c] + 1 ELSE b.orphans[c]])
       IN  /\ subscribers' = [c \in DOMAIN subscribers |->
                                 IF c \in batch.live
                                 THEN deliver_message(subscribers[c], batch.message)
                                 ELSE subscribers[c]]
           /\ stats' = [stats EXCEPT
                           !.total_deliveries = @ + successful_deliveries,
                           !.failed_deliveries = @ + failed,
                           !.total_broadcasts = @ + 1]
           /\ in_flight' = [i \in 1..(Len(in_flight) - 1) |-> grow(in_flight[i + 1])]

\* The reader of a subscription queue takes the oldest frame.
queue_get(connection_id) ==
    /\ connection_id \in DOMAIN subscribers
    /\ subscribers[connection_id].queue # <<>>
    /\ subscribers' = [subscribers EXCEPT ![connection_id].queue = Tail(@)]
    /\ UNCHANGED <<stats, in_flight>>

BusNext ==
    \/ \E c \in WsIds, t \in ThreadIds \cup {None} :
          subscribe(c, t) /\ UNCHANGED <<sessVars, routeVars, connVars, voiceVars, decider, moreVars>>
    \/ \E c \in WsIds : unsubscribe(c) /\ UNCHANGED <<sessVars, routeVars, connVars, voiceVars, decider, moreVars>>
    \/ \E c \in WsIds, t \in ThreadIds :
          update_thread_id(c, t) /\ UNCHANGED <<sessVars, routeVars, connVars, voiceVars, decider, moreVars>>
    \/ \E m \in BusMessages : broadcast(m) /\ UNCHANGED <<sessVars, routeVars, connVars, voiceVars, decider, moreVars>>
    \/ broadcast_deliver /\ UNCHANGED <<sessVars, routeVars, connVars, voiceVars, decider, moreVars>>
    \/ \E c \in WsIds : queue_get(c) /\ UNCHANGED <<sessVars, routeVars, connVars, voiceVars, decider, moreVars>>

\* ========================================================================
\* Connection registry: app/connection_manager.py
\* Control-channel handler: app/routes/per_connection_chat.py
\* ========================================================================

\* Connections opened in a run, and the capacity of a connection's queues.
NumConns == 1
QueueMaxsize == 2

ConnIds == 1..NumConns

\* The callers of cleanup_connection: the websocket handler's finally block,
\* _periodic_cleanup and stop.
Triggers == {"handler", "sweep", "stop"}

\* provider_type of the configurations offered: a C1 provider and an HTML one.
ProviderTypes == {"thesys", "openai"}
ConfigFrames == ProviderTypes \cup {"invalid", "timeout"}

ConnectionState ==
    {"connecting", "config_received", "validating", "mcp_initializing",
     "viz_initializing", "ready", "active", "error", "disconnecting", "closed"}

ConnectionMetrics ==
    [messages_sent |-> 0, messages_received |-> 0, mcp_calls |-> 0,
     viz_requests |-> 0, errors |-> 0]

\* An object field holds None or the object, named by its connection's id.
\* last_activity is a reading of time.time() less than an hour old
\* ("recent") or older ("old"), or a reading of the event loop's monotonic
\* clock, which lies far more than an hour below time.time(), taken less
\* than an hour ago ("loop_recent") or earlier ("loop_old").
ConnectionContext ==
    [state |-> "connecting", config |-> None, mcp_client |-> None,
     visualization_provider |-> None, temp_mcp_config_path |-> None,
     processor_task |-> None, voice_agent |-> None, voice_thread_id |-> None,
     message_queue |-> <<>>, raw_output_queue |-> <<>>,
     last_activity |-> "recent", metrics |-> ConnectionMetrics]

\* What exists outside the context: the tool-server client, the UI provider
\* and the temporary file, with the number of calls that close each, and the
\* number of items taken from the queues when they are cleared; how the wait
\* for the configuration frame ended, and the error_code of the ErrorMessage
\* the handler then wrote to the websocket; the number of user_interaction
\* frames the receiver has read from the websocket.
NoHandles ==
    [mcp_client |-> "none", mcp_closes |-> 0,
     visualization_provider |-> "none", viz_cleanups |-> 0,
     temp_file |-> "none", unlinks |-> 0, drained |-> 0,
     config_wait |-> "none", error_code |-> "none", interactions |-> 0]

NoTasks == [sender |-> "none", receiver |-> "none"]

registered(connection_id) == connection_id \in Range(connections)

remove_key(keys, k) == SelectSeq(keys, LAMBDA x : x # k)

\* update_state up to its await of websocket.send_text.  w is the pair of
\* the context and the set of state changes made so far.
World(ctx, changes) == [ctx |-> ctx, changes |-> changes]

update_state(w, known, state) ==
    IF ~known THEN w
    ELSE World([w.ctx EXCEPT !.state = state, !.last_activity = "recent"],
               IF w.ctx.state # state
               THEN w.changes \cup {<<w.ctx.state, state>>} ELSE w.changes)

\* update_state from the return of send_text: a failed send of a state other
\* than ERROR calls update_state(ERROR), whose own failed send changes nothing.
update_state_sent(w, known, state, sent) ==
    IF sent \/ state = "error" THEN w ELSE update_state(w, known, "error")

\* The state of connection_id as the handler resumes from update_state(state).
resumed(connection_id, state) ==
    update_state_sent(World(context[connection_id], transitions),
                      registered(connection_id), state,
                      websocket_open[connection_id])

\* Assign the context and the changes of w, and move the handler.
handler_goes(connection_id, w, pc) ==
    /\ context' = [context EXCEPT ![connection_id] = w.ctx]
    /\ transitions' = w.changes
    /\ handler_pc' = [handler_pc EXCEPT ![connection_id] = pc]

\* The client closes its end of the websocket.
client_disconnect(connection_id) ==
    /\ handler_pc[connection_id] # "none"
    /\ websocket_open[connection_id]
    /\ websocket_open' = [websocket_open EXCEPT ![connection_id] = FALSE]
    /\ UNCHANGED <<connections, context, handler_pc, cleanup_pc, handles, tasks,
                   processor, transitions, sweep, stop_call>>

\* websocket_per_connection_messages: accept, register_connection, and the
\* send of connection_established.
register_connection(connection_id) ==
    /\ handler_pc[connection_id] = "none"
    /\ connections' = Append(connections, connection_id)
    /\ handler_pc' = [handler_pc EXCEPT ![connection_id] = "established"]
    /\ UNCHANGED <<context, websocket_open, cleanup_pc, handles, tasks,
                   processor, transitions, sweep, stop_call>>

\* The send of connection_established returns (or raises, and the handler
\* goes to its finally block); the handler waits for the configuration frame.
connection_established(connection_id) ==
    /\ handler_pc[connection_id] = "established"
    /\ handler_pc' = [handler_pc EXCEPT ![connection_id] =
                         IF websocket_open[connection_id]
                         THEN "wait_config" ELSE "finally"]
    /\ UNCHANGED <<connections, context, websocket_open, cleanup_pc, handles,
                   tasks, processor, transitions, sweep, stop_call>>

\* A handler that returns on the timeout without writing an ErrorMessage.
wait_for_configuration_silent(connection_id, frame) ==
    /\ handler_pc[connection_id] = "wait_config"
    /\ IF websocket_open[connection_id] /\ frame \in ProviderTypes
          /\ registered(connection_id)
       THEN /\ handler_goes(connection_id,
                  update_state(World([context[connection_id] EXCEPT
                                         !.config = frame], transitions),
                               TRUE, "config_received"),
                  "config_received")
            /\ handles' = [handles EXCEPT
                              ![connection_id].config_wait = "frame"]
       ELSE /\ handler_pc' = [handler_pc EXCEPT ![connection_id] = "finally"]
            /\ handles' =
                  IF ~websocket_open[connection_id]
                  THEN [handles EXCEPT
                           ![connection_id].config_wait = "disconnect"]
                  ELSE IF frame = "timeout"
                  THEN [handles EXCEPT
                           ![connection_id].config_wait = "timeout"]
                  ELSE IF frame = "invalid"
                  THEN [handles EXCEPT
                           ![connection_id].config_wait = "invalid",
                           ![connection_id].error_code =
                               "INVALID_CONFIG_FORMAT"]
                  ELSE [handles EXCEPT
                           ![connection_id].config_wait = "frame"]
            /\ UNCHANGED <<context, transitions>>
    /\ UNCHANGED <<connections, websocket_open, cleanup_pc, tasks,
                   processor, sweep, stop_call>>

\* _wait_for_configuration: the frame is a configuration, here its
\* visualization_provider.provider_type (configure_connection starts and
\* publishes CONFIG_RECEIVED, or returns False at once for a connection that
\* left the registry), or it cannot be decoded, or none comes in 30 s, or the
\* websocket is closed.  For a frame that cannot be decoded and for the
\* timeout an ErrorMessage is written before the handler returns.
wait_for_configuration(connection_id, frame) ==
    /\ handler_pc[connection_id] = "wait_config"
    /\ IF websocket_open[connection_id] /\ frame \in ProviderTypes
          /\ registered(connection_id)
       THEN /\ handler_goes(connection_id,
                  update_state(World([context[connection_id] EXCEPT
                                         !.config = frame], transitions),
                               TRUE, "config_received"),
                  "config_received")
            /\ handles' = [handles EXCEPT
                              ![connection_id].config_wait = "frame"]
       ELSE /\ handler_pc' = [handler_pc EXCEPT ![connection_id] = "finally"]
            /\ handles' =
                  IF ~websocket_open[connection_id]
                  THEN [handles EXCEPT
                           ![connection_id].config_wait = "disconnect"]
                  ELSE IF frame = "timeout"
                  THEN [handles EXCEPT
                           ![connection_id].config_wait = "timeout",
                           ![connection_id].error_code = "CONFIG_TIMEOUT"]
                  ELSE IF frame = "invalid"
                  THEN [handles EXCEPT
                           ![connection_id].config_wait = "invalid",
                           ![connection_id].error_code =
                               "INVALID_CONFIG_FORMAT"]
                  ELSE [handles EXCEPT
                           ![connection_id].config_wait = "frame"]
            /\ UNCHANGED <<context, transitions>>
    /\ UNCHANGED <<connections, websocket_open, cleanup_pc, tasks,
                   processor, sweep, stop_call>>

\* configure_connection returning False for an invalid configuration without
\* a call of update_state(ERROR).
validate_config_silent(connection_id, valid) ==
    /\ handler_pc[connection_id] = "config_received"
    /\ LET w == resumed(connection_id, "config_received")
       IN  IF valid
           THEN handler_goes(connection_id,
                   update_state(w, registered(connection_id), "validating"),
                   "validating")
           ELSE handler_goes(connection_id, w, "failed")
    /\ UNCHANGED <<connections, websocket_open, cleanup_pc, handles, tasks,
                   processor, sweep, stop_call>>

\* configure_connection from CONFIG_RECEIVED: _validate_config, then
\* VALIDATING, or ERROR and return False.
validate_config(connection_id, valid) ==
    /\ handler_pc[connection_id] = "config_received"
    /\ LET w == resumed(connection_id, "config_received")
       IN  IF valid
           THEN handler_goes(connection_id,
                   update_state(w, registered(connection_id), "validating"),
                   "validating")
           ELSE handler_goes(connection_id,
                   update_state(w, registered(connection_id), "error"),
                   "failed")
    /\ UNCHANGED <<connections, websocket_open, cleanup_pc, handles, tasks,
                   processor, sweep, stop_call>>

\* The send of the ERROR state returns; configure_connection returns False
\* and the handler goes to its finally block.
configure_failed(connection_id) ==
    /\ handler_pc[connection_id] = "failed"
    /\ handler_pc' = [handler_pc EXCEPT ![connection_id] = "finally"]
    /\ UNCHANGED <<connections, context, websocket_open, cleanup_pc, handles,
                   tasks, processor, transitions, sweep, stop_call>>

\* _initialize_mcp_client is entered: MCP_INITIALIZING, progress 30.
initialize_mcp_client(connection_id) ==
    /\ handler_pc[connection_id] = "validating"
    /\ handler_goes(connection_id,
          update_state(resumed(connection_id, "validating"),
                       registered(connection_id), "mcp_initializing"),
          "mcp_config")
    /\ UNCHANGED <<connections, websocket_open, cleanup_pc, handles, tasks,
                   processor, sweep, stop_call>>

\* The temporary configuration file is written and its path stored in the
\* context looked up in the registry (KeyError, hence ERROR, for a removed
\* connection); MCP_INITIALIZING, progress 40.
write_temp_config(connection_id) ==
    /\ handler_pc[connection_id] = "mcp_config"
    /\ handles' = [handles EXCEPT ![connection_id].temp_file = "exists"]
    /\ LET w == resumed(connection_id, "mcp_initializing")
       IN  IF registered(connection_id)
           THEN handler_goes(connection_id,
                   update_state(World([w.ctx EXCEPT !.temp_mcp_config_path =
                                          connection_id], w.changes),
                                TRUE, "mcp_initializing"),
                   "mcp_connect")
           ELSE handler_goes(connection_id, w, "failed")
    /\ UNCHANGED <<connections, websocket_open, cleanup_pc, tasks, processor,
                   sweep, stop_call>>

\* EnhancedMCPClient is built and client.initialize() awaited.
mcp_client_initialize(connection_id) ==
    /\ handler_pc[connection_id] = "mcp_connect"
    /\ handler_goes(connection_id, resumed(connection_id, "mcp_initializing"),
                    "mcp_initialize")
    /\ UNCHANGED <<connections, websocket_open, cleanup_pc, handles, tasks,
                   processor, sweep, stop_call>>

\* client.initialize() returns (MCP_INITIALIZING, progress 45) or raises or
\* times out (ERROR, return False).
mcp_client_initialized(connection_id, ok) ==
    /\ handler_pc[connection_id] = "mcp_initialize"
    /\ LET w == World(context[connection_id], transitions)
       IN  IF ok
           THEN /\ handler_goes(connection_id,
                      update_state(w, registered(connection_id),
                                   "mcp_initializing"), "mcp_connected")
                /\ handles' = [handles EXCEPT ![connection_id].mcp_client = "open"]
           ELSE /\ handler_goes(connection_id,
                      update_state(w, registered(connection_id), "error"),
                      "failed")
                /\ UNCHANGED handles
    /\ UNCHANGED <<connections, websocket_open, cleanup_pc, tasks, processor,
                   sweep, stop_call>>

\* _initialize_mcp_client returns the client, which is stored in the context;
\* MCP_INITIALIZING, progress 50.
mcp_client_ready(connection_id) ==
    /\ handler_pc[connection_id] = "mcp_connected"
    /\ LET w == resumed(connection_id, "mcp_initializing")
       IN  handler_goes(connection_id,
              update_state(World([w.ctx EXCEPT !.mcp_client = connection_id],
                                 w.changes),
                           registered(connection_id), "mcp_initializing"),
              "mcp_ready")
    /\ UNCHANGED <<connections, websocket_open, cleanup_pc, handles, tasks,
                   processor, sweep, stop_call>>

\* _initialize_viz_provider is entered: VIZ_INITIALIZING, progress 60.
initialize_viz_provider(connection_id) ==
    /\ handler_pc[connection_id] = "mcp_ready"
    /\ handler_goes(connection_id,
          update_state(resumed(connection_id, "mcp_initializing"),
                       registered(connection_id), "viz_initializing"),
          "viz_setup")
    /\ UNCHANGED <<connections, websocket_open, cleanup_pc, handles, tasks,
                   processor, sweep, stop_call>>

\* viz_factory.create_provider is awaited.
create_provider(connection_id) ==
    /\ handler_pc[connection_id] = "viz_setup"
    /\ handler_goes(connection_id, resumed(connection_id, "viz_initializing"),
                    "viz_create")
    /\ UNCHANGED <<connections, websocket_open, cleanup_pc, handles, tasks,
                   processor, sweep, stop_call>>

\* create_provider returns a provider (VIZ_INITIALIZING, progress 70) or
\* raises or returns None (ERROR, return False).
provider_created(connection_id, ok) ==
    /\ handler_pc[connection_id] = "viz_create"
    /\ LET w == World(context[connection_id], transitions)
       IN  IF ok
           THEN /\ handler_goes(connection_id,
                      update_state(w, registered(connection_id),
                                   "viz_initializing"), "viz_created")
                /\ handles' = [handles EXCEPT
                                  ![connection_id].visualization_provider = "open"]
           ELSE /\ handler_goes(connection_id,
                      update_state(w, registered(connection_id), "error"),
                      "failed")
                /\ UNCHANGED handles
    /\ UNCHANGED <<connections, websocket_open, cleanup_pc, tasks, processor,
                   sweep, stop_call>>

\* _initialize_viz_provider returns the provider, which is stored in the
\* context; VIZ_INITIALIZING, progress 75.
viz_provider_ready(connection_id) ==
    /\ handler_pc[connection_id] = "viz_created"
    /\ LET w == resumed(connection_id, "viz_initializing")
       IN  handler_goes(connection_id,
              update_state(World([w.ctx EXCEPT !.visualization_provider =
                                     connection_id], w.changes),
                           registered(connection_id), "viz_initializing"),
              "viz_ready")
    /\ UNCHANGED <<connections, websocket_open, cleanup_pc, handles, tasks,
                   processor, sweep, stop_call>>

\* READY, progress 100.
connection_ready(connection_id) ==
    /\ handler_pc[connection_id] = "viz_ready"
    /\ handler_goes(connection_id,
          update_state(resumed(connection_id, "viz_initializing"),
                       registered(connection_id), "ready"),
          "ready")
    /\ UNCHANGED <<connections, websocket_open, cleanup_pc, handles, tasks,
                   processor, sweep, stop_call>>

\* ------------------------------------------------------------------------
\* The tasks of a connection
\* ------------------------------------------------------------------------

\* A raw_output_queue item: whether assistant_response is empty, and the
\* source and thread_id of its metadata.
Item(empty, source, thread_id) ==
    [empty |-> empty, source |-> source, thread_id |-> thread_id]

NoTurn == [item |-> None, enhanced |-> None, frames |-> <<>>, chunks |-> 0,
           finished |-> FALSE]

\* task: "none", "created" (not yet run), "poll" (in wait_for(get)),
\* "deciding", "streaming", "broadcasting" (inside a turn), "done".
NoProcessor == [task |-> "none", running |-> FALSE, cancel |-> FALSE,
                turn |-> NoTurn]

\* A _start_processor after which the handler is suspended before ACTIVE is
\* assigned.
start_processor_before_active(connection_id) ==
    /\ handler_pc[connection_id] = "ready"
    /\ LET w == resumed(connection_id, "ready")
       IN  IF registered(connection_id)
           THEN /\ handler_goes(connection_id,
                      World([w.ctx EXCEPT !.processor_task = connection_id],
                            w.changes),
                      "active")
                /\ processor' = [processor EXCEPT ![connection_id].task = "created"]
           ELSE /\ handler_goes(connection_id, w, "failed")
                /\ UNCHANGED processor
    /\ UNCHANGED <<connections, websocket_open, cleanup_pc, handles, tasks,
                   sweep, stop_call>>

\* _start_processor from the return of the READY send, then ACTIVE.  The
\* registry lookup raises KeyError for a removed connection: ERROR.
start_processor(connection_id) ==
    /\ handler_pc[connection_id] = "ready"
    /\ LET w == resumed(connection_id, "ready")
       IN  IF registered(connection_id)
           THEN /\ handler_goes(connection_id,
                      update_state(World([w.ctx EXCEPT !.processor_task =
                                             connection_id], w.changes),
                                   TRUE, "active"),
                      "active")
                /\ processor' = [processor EXCEPT ![connection_id].task = "created"]
           ELSE /\ handler_goes(connection_id, w, "failed")
                /\ UNCHANGED processor
    /\ UNCHANGED <<connections, websocket_open, cleanup_pc, handles, tasks,
                   sweep, stop_call>>

\* configure_connection returns True; the handler looks its context up
\* (KeyError for a removed connection) and _run_connection_loops creates the
\* sender and receiver tasks.
run_connection_loops(connection_id) ==
    /\ handler_pc[connection_id] = "active"
    /\ IF registered(connection_id)
       THEN /\ handler_goes(connection_id, resumed(connection_id, "active"), "loops")
            /\ tasks' = [tasks EXCEPT ![connection_id] =
                            [sender |-> "created", receiver |-> "created"]]
       ELSE /\ handler_goes(connection_id, resumed(connection_id, "active"),
                            "finally")
            /\ UNCHANGED tasks
    /\ UNCHANGED <<connections, websocket_open, cleanup_pc, handles, processor,
                   sweep, stop_call>>

\* asyncio.wait with return_when=ALL_COMPLETED: the handler waits for both.
loops_completed_all(connection_id) ==
    /\ handler_pc[connection_id] = "loops"
    /\ tasks[connection_id] = [sender |-> "done", receiver |-> "done"]
    /\ handler_pc' = [handler_pc EXCEPT ![connection_id] = "finally"]
    /\ UNCHANGED <<connections, context, websocket_open, cleanup_pc, handles,
                   tasks, processor, transitions, sweep, stop_call>>

\* asyncio.wait returns when the sender or the receiver is done; the other is
\* cancelled and the handler goes to its finally block.
loops_completed(connection_id) ==
    /\ handler_pc[connection_id] = "loops"
    /\ "done" \in {tasks[connection_id].sender, tasks[connection_id].receiver}
    /\ tasks' = [tasks EXCEPT ![connection_id] =
                    [sender |-> "done", receiver |-> "done"]]
    /\ handler_pc' = [handler_pc EXCEPT ![connection_id] = "finally"]
    /\ UNCHANGED <<connections, context, websocket_open, cleanup_pc, handles,
                   processor, transitions, sweep, stop_call>>

loop_condition(connection_id) ==
    context[connection_id].state \in {"active", "ready"}

\* A sender that takes the newest frame of message_queue.
per_connection_sender_newest(connection_id) ==
    /\ tasks[connection_id].sender \in {"created", "running"}
    /\ IF ~loop_condition(connection_id)
       THEN /\ tasks' = [tasks EXCEPT ![connection_id].sender = "done"]
            /\ UNCHANGED context
       ELSE IF context[connection_id].message_queue = <<>>
       THEN /\ tasks' = [tasks EXCEPT ![connection_id].sender = "running"]
            /\ UNCHANGED context
       ELSE /\ context' = [context EXCEPT
                              ![connection_id].message_queue =
                                  SubSeq(@, 1, Len(@) - 1),
                              ![connection_id].last_activity =
                                  IF websocket_open[connection_id]
                                  THEN "loop_recent" ELSE @]
            /\ tasks' = [tasks EXCEPT ![connection_id].sender =
                            IF websocket_open[connection_id]
                            THEN "running" ELSE "done"]
    /\ UNCHANGED <<connections, websocket_open, handler_pc, cleanup_pc, handles,
                   processor, transitions, sweep, stop_call>>

\* _per_connection_sender, one iteration: the loop condition, the oldest
\* frame of message_queue (or the 1 s timeout), the send (an exception ends
\* the loop).
per_connection_sender(connection_id) ==
    /\ tasks[connection_id].sender \in {"created", "running"}
    /\ IF ~loop_condition(connection_id)
       THEN /\ tasks' = [tasks EXCEPT ![connection_id].sender = "done"]
            /\ UNCHANGED context
       ELSE IF context[connection_id].message_queue = <<>>
       THEN /\ tasks' = [tasks EXCEPT ![connection_id].sender = "running"]
            /\ UNCHANGED context
       ELSE /\ context' = [context EXCEPT
                              ![connection_id].message_queue = Tail(@),
                              ![connection_id].last_activity =
                                  IF websocket_open[connection_id]
                                  THEN "loop_recent" ELSE @]
            /\ tasks' = [tasks EXCEPT ![connection_id].sender =
                            IF websocket_open[connection_id]
                            THEN "running" ELSE "done"]
    /\ UNCHANGED <<connections, websocket_open, handler_pc, cleanup_pc, handles,
                   processor, transitions, sweep, stop_call>>

\* _per_connection_receiver is first run: the loop condition, then
\* receive_text.
per_connection_receiver(connection_id) ==
    /\ tasks[connection_id].receiver = "created"
    /\ tasks' = [tasks EXCEPT ![connection_id].receiver =
                    IF loop_condition(connection_id) THEN "waiting" ELSE "done"]
    /\ UNCHANGED <<connections, context, websocket_open, handler_pc, cleanup_pc,
                   handles, processor, transitions, sweep, stop_call>>

queue_has_room(queue, n) == Len(queue) + n <= QueueMaxsize

\* Records a connection takes in a run.
MaxTurns == 2
may_enqueue(ctx) ==
    /\ queue_has_room(ctx.raw_output_queue, 1)
    /\ ctx.metrics.messages_received + Len(ctx.raw_output_queue) < MaxTurns

\* create_text_chat_response(content, thread_id): no recipient id.
text_chat_response(connection_id, thread_id) ==
    Message("text_chat_response", None, thread_id, connection_id)

\* User-interaction frames a client sends in a run.
MaxInteractions == 2

\* receive_text returns or raises WebSocketDisconnect.  A frame that
\* ChatMessage does not validate is skipped: one that cannot be decoded, and
\* a user_interaction frame, whose type is none of chat, chat_request and
\* thesys_bridge.  _process_per_connection_chat queues the answer of
\* chat_with_tools for the worker, or on an exception puts an error card on
\* message_queue.  Then the loop condition.
receive_chat(connection_id, frame, thread_id) ==
    /\ tasks[connection_id].receiver = "waiting"
    /\ frame = "user_interaction" =>
          handles[connection_id].interactions < MaxInteractions
    /\ handles' = IF frame = "user_interaction" /\ websocket_open[connection_id]
                  THEN [handles EXCEPT ![connection_id].interactions = @ + 1]
                  ELSE handles
    /\ LET ctx == [context[connection_id] EXCEPT !.last_activity = "loop_recent"]
           ctx1 == IF frame = "chat" /\ ctx.mcp_client # None
                   THEN [ctx EXCEPT !.raw_output_queue = Append(@,
                            Item(FALSE, "per_connection_chat", thread_id))]
                   ELSE IF frame = "empty_answer" /\ ctx.mcp_client # None
                   THEN [ctx EXCEPT !.raw_output_queue = Append(@,
                            Item(TRUE, "per_connection_chat", thread_id))]
                   ELSE IF frame \in {"invalid", "user_interaction"} THEN ctx
                   ELSE [ctx EXCEPT !.message_queue = Append(@,
                            text_chat_response(connection_id, thread_id))]
       IN  IF ~websocket_open[connection_id]
           THEN /\ tasks' = [tasks EXCEPT ![connection_id].receiver = "done"]
                /\ UNCHANGED context
           ELSE /\ ctx1.message_queue # ctx.message_queue =>
                      queue_has_room(ctx.message_queue, 1)
                /\ ctx1.raw_output_queue # ctx.raw_output_queue =>
                      may_enqueue(ctx)
                /\ context' = [context EXCEPT ![connection_id] = ctx1]
                /\ tasks' = [tasks EXCEPT ![connection_id].receiver =
                                IF loop_condition(connection_id)
                                THEN "waiting" ELSE "done"]
    /\ UNCHANGED <<connections, websocket_open, handler_pc, cleanup_pc,
                   processor, transitions, sweep, stop_call>>

ChatFrames == {"chat", "empty_answer", "chat_error", "invalid"}

\* ------------------------------------------------------------------------
\* cleanup_connection and its callers
\* ------------------------------------------------------------------------

\* cleanup_connection(connection_id) returns to, or raises into, its caller:
\* the handler ends; _periodic_cleanup takes the next stale connection, and
\* on an exception logs it and sleeps again; stop takes its next connection,
\* and an exception ends it.
returns(connection_id, trigger, outcome) ==
    /\ cleanup_pc' = [cleanup_pc EXCEPT ![connection_id][trigger] = outcome]
    /\ handler_pc' = IF trigger = "handler"
                     THEN [handler_pc EXCEPT ![connection_id] = "closed"]
                     ELSE handler_pc
    /\ sweep' = IF trigger # "sweep" THEN sweep
                ELSE IF outcome = "done" /\ Len(sweep.stale_connections) > 1
                THEN [sweep EXCEPT !.stale_connections = Tail(@)]
                ELSE [task |-> "sleeping", stale_connections |-> <<>>]
    /\ stop_call' = IF trigger # "stop" THEN stop_call
                    ELSE IF outcome = "raised"
                    THEN [pc |-> "raised", connection_ids |-> <<>>]
                    ELSE IF Len(stop_call.connection_ids) > 1
                    THEN [stop_call EXCEPT !.connection_ids = Tail(@)]
                    ELSE [pc |-> "done", connection_ids |-> <<>>]

called(connection_id, trigger) ==
    /\ cleanup_pc[connection_id][trigger] = "idle"
    /\ CASE trigger = "handler" -> handler_pc[connection_id] = "finally"
         [] trigger = "sweep" -> /\ sweep.task = "cleaning"
                                 /\ Head(sweep.stale_connections) = connection_id
         [] trigger = "stop" -> /\ stop_call.pc = "cleaning"
                                /\ Head(stop_call.connection_ids) = connection_id

\* cleanup_connection is called: it returns at once for a connection that is
\* not in the registry, and else publishes DISCONNECTING.
cleanup_connection(connection_id, trigger) ==
    /\ called(connection_id, trigger)
    /\ IF ~registered(connection_id)
       THEN /\ returns(connection_id, trigger, "done")
            /\ UNCHANGED <<context, transitions>>
       ELSE LET w == update_state(World(context[connection_id], transitions),
                                  TRUE, "disconnecting")
            IN  /\ context' = [context EXCEPT ![connection_id] = w.ctx]
                /\ transitions' = w.changes
                /\ cleanup_pc' = [cleanup_pc EXCEPT
                                     ![connection_id][trigger] = "notify"]
                /\ UNCHANGED <<handler_pc, sweep, stop_call>>
    /\ UNCHANGED <<connections, websocket_open, handles, tasks, processor>>

\* The next await of cleanup_connection after the one it resumes from.
stage_after(ctx, from) ==
    IF from = "notify" /\ ctx.processor_task # None THEN "wait_task"
    ELSE IF from \in {"notify", "wait_task"} /\ ctx.mcp_client # None
    THEN "mcp_close"
    ELSE IF /\ from \in {"notify", "wait_task", "mcp_close"}
            /\ ctx.visualization_provider # None
    THEN "viz_cleanup"
    ELSE "final"

\* The voice agent block runs between the wait for the processor task and
\* the close of the tool-server client.
voice_block(ctx, from) ==
    /\ from \in {"notify", "wait_task"}
    /\ stage_after(ctx, from) # "wait_task"
    /\ ctx.voice_agent # None

\* "Clear queues": get_nowait until both queues are empty.
drain_raw_output_only(ctx) == [ctx EXCEPT !.raw_output_queue = <<>>]
drain(ctx) == [ctx EXCEPT !.message_queue = <<>>, !.raw_output_queue = <<>>]

\* cleanup_connection from one await to the next, or to its end: the
\* temporary file is unlinked if it exists, both queues are emptied and the
\* connection is deleted from the registry (KeyError if it is not there).
cleanup_proceeds(connection_id, trigger, from, w) ==
    LET stage == stage_after(w.ctx, from)
        ctx1 == IF voice_block(w.ctx, from)
                THEN [w.ctx EXCEPT !.voice_agent = None, !.voice_thread_id = None]
                ELSE w.ctx
        unlink == /\ ctx1.temp_mcp_config_path # None
                  /\ handles[connection_id].temp_file = "exists"
        items == Len(ctx1.message_queue) + Len(ctx1.raw_output_queue)
    IN  /\ transitions' = w.changes
        /\ IF voice_block(w.ctx, from)
           THEN unsubscribe(connection_id)
           ELSE IF stage = "wait_task"
           THEN /\ in_flight' = SelectSeq(in_flight, LAMBDA b :
                                     b.message.origin # connection_id)
                /\ UNCHANGED <<subscribers, stats>>
           ELSE UNCHANGED busVars
        /\ processor' = IF stage = "wait_task" /\ processor[connection_id].task # "done"
                        THEN [processor EXCEPT ![connection_id].cancel = TRUE]
                        ELSE processor
        /\ handles' =
              CASE stage = "mcp_close" ->
                      [handles EXCEPT ![connection_id].mcp_client = "closed",
                                      ![connection_id].mcp_closes = @ + 1]
                [] stage = "viz_cleanup" ->
                      [handles EXCEPT
                          ![connection_id].visualization_provider = "closed",
                          ![connection_id].viz_cleanups = @ + 1]
                [] stage = "final" /\ unlink ->
                      [handles EXCEPT ![connection_id].temp_file = "removed",
                                      ![connection_id].unlinks = @ + 1,
                                      ![connection_id].drained = @ + items]
                [] stage = "final" /\ ~unlink ->
                      [handles EXCEPT ![connection_id].drained = @ + items]
                [] OTHER -> handles
        /\ IF stage # "final"
           THEN /\ context' = [context EXCEPT ![connection_id] = ctx1]
                /\ cleanup_pc' = [cleanup_pc EXCEPT
                                     ![connection_id][trigger] = stage]
                /\ UNCHANGED <<connections, handler_pc, sweep, stop_call>>
           ELSE /\ context' = [context EXCEPT ![connection_id] = drain(ctx1)]
                /\ connections' = remove_key(connections, connection_id)
                /\ returns(connection_id, trigger,
                           IF registered(connection_id) THEN "done" ELSE "raised")
        /\ UNCHANGED <<websocket_open, tasks>>

\* cleanup_connection without the except around update_state(DISCONNECTING):
\* a send that raises ends the call.
cleanup_notified_aborting(connection_id, trigger) ==
    /\ cleanup_pc[connection_id][trigger] = "notify"
    /\ IF websocket_open[connection_id]
       THEN cleanup_proceeds(connection_id, trigger, "notify",
                             resumed(connection_id, "disconnecting"))
       ELSE /\ returns(connection_id, trigger, "raised")
            /\ UNCHANGED <<connections, context, websocket_open, handles, tasks,
                           processor, transitions, busVars>>

\* The DISCONNECTING send returns or raises; the processor task is cancelled
\* (and with it the deliveries of a broadcast it is waiting in).
cleanup_notified(connection_id, trigger) ==
    /\ cleanup_pc[connection_id][trigger] = "notify"
    /\ cleanup_proceeds(connection_id, trigger, "notify",
                        resumed(connection_id, "disconnecting"))

\* wait_for(processor_task) returns: the task is done.
cleanup_task_waited(connection_id, trigger) ==
    /\ cleanup_pc[connection_id][trigger] = "wait_task"
    /\ processor[connection_id].task = "done"
    /\ cleanup_proceeds(connection_id, trigger, "wait_task",
                        World(context[connection_id], transitions))

\* mcp_client.close() returns.
cleanup_mcp_closed(connection_id, trigger) ==
    /\ cleanup_pc[connection_id][trigger] = "mcp_close"
    /\ cleanup_proceeds(connection_id, trigger, "mcp_close",
                        World(context[connection_id], transitions))

\* visualization_provider.cleanup() returns.
cleanup_viz_cleaned(connection_id, trigger) ==
    /\ cleanup_pc[connection_id][trigger] = "viz_cleanup"
    /\ cleanup_proceeds(connection_id, trigger, "viz_cleanup",
                        World(context[connection_id], transitions))

\* An hour goes by.
hour_passes ==
    /\ \E c \in ConnIds :
          registered(c) /\ context[c].last_activity \in {"recent", "loop_recent"}
    /\ context' = [c \in DOMAIN context |->
                      IF context[c].last_activity = "recent"
                      THEN [context[c] EXCEPT !.last_activity = "old"]
                      ELSE IF context[c].last_activity = "loop_recent"
                      THEN [context[c] EXCEPT !.last_activity = "loop_old"]
                      ELSE context[c]]
    /\ UNCHANGED <<connections, websocket_open, handler_pc, cleanup_pc, handles,
                   tasks, processor, transitions, sweep, stop_call>>

\* current_time - context.last_activity > 3600, with current_time a reading
\* of time.time().
is_stale(ctx) == ctx.last_activity # "recent"

\* _periodic_cleanup wakes from its sleep and lists the stale connections.
periodic_cleanup ==
    /\ sweep.task = "sleeping"
    /\ \E c \in Range(connections) : is_stale(context[c])
    /\ sweep' = [task |-> "cleaning", stale_connections |->
                    SelectSeq(connections, LAMBDA x : is_stale(context[x]))]
    /\ UNCHANGED <<connections, context, websocket_open, handler_pc, cleanup_pc,
                   handles, tasks, processor, transitions, stop_call>>

\* stop cancels the _periodic_cleanup task and awaits it, then lists the
\* connections.  A cancellation that arrives inside cleanup_connection is
\* swallowed by the bare except around update_state and by the except of
\* wait_for, so the task goes on and stop keeps waiting; in the other awaits
\* it ends the task.
stop ==
    /\ stop_call.pc = "idle"
    /\ LET at == IF sweep.task = "cleaning"
                 THEN cleanup_pc[Head(sweep.stale_connections)]["sweep"]
                 ELSE "idle"
       IN  IF at \in {"notify", "wait_task"}
           THEN /\ stop_call' = [pc |-> "waiting", connection_ids |-> <<>>]
                /\ UNCHANGED <<sweep, cleanup_pc>>
           ELSE /\ stop_call' =
                      IF connections = <<>>
                      THEN [pc |-> "done", connection_ids |-> <<>>]
                      ELSE [pc |-> "cleaning", connection_ids |-> connections]
                /\ sweep' = [task |-> "stopped", stale_connections |-> <<>>]
                /\ cleanup_pc' =
                      IF at \in {"mcp_close", "viz_cleanup"}
                      THEN [cleanup_pc EXCEPT
                              ![Head(sweep.stale_connections)]["sweep"] = "cancelled"]
                      ELSE cleanup_pc
    /\ UNCHANGED <<connections, context, websocket_open, handler_pc, handles,
                   tasks, processor, transitions>>

\* ========================================================================
\* Per-connection worker: app/per_connection_processor.py
\* ========================================================================

\* Chunks a visualization stream yields at most.
MaxChunks == 2

\* metadata.get("source") of the records offered to a worker by producers
\* other than the receiver.
ProducerSources == {"voice-agent", "text_chat"}

\* A record reaches raw_output_queue from the media pipeline or a text route.
enqueue_raw_output(connection_id, item) ==
    /\ registered(connection_id)
    /\ may_enqueue(context[connection_id])
    /\ context' = [context EXCEPT ![connection_id].raw_output_queue =
                      Append(@, item)]
    /\ UNCHANGED <<connections, websocket_open, handler_pc, cleanup_pc, handles,
                   tasks, processor, transitions, sweep, stop_call>>

\* create_voice_response(content, content_type, framework, voice_text): the
\* frame names neither a recipient connection nor a thread.
voice_response(connection_id) ==
    Message("voice_response", None, None, connection_id)

\* The frame of _send_simple_response and of _send_error_response.
response_for(connection_id, source, thread_id) ==
    IF source = "voice-agent" THEN voice_response(connection_id)
    ELSE text_chat_response(connection_id, thread_id)

ui_token(connection_id, provider_type) ==
    Message(IF provider_type \in {"openai", "anthropic", "google"}
            THEN "html_token" ELSE "c1_token", None, None, connection_id)

\* send_message_to_frontend: the voice kinds go to the bus.
is_broadcast(message) ==
    message.type \in {"voice_response", "immediate_voice_response",
                      "user_transcription"}

\* The frames put on message_queue among those sent to the frontend.
queued(messages) == SelectSeq(messages, LAMBDA m : ~is_broadcast(m))
broadcasted(messages) == SelectSeq(messages, LAMBDA m : is_broadcast(m))

kinds(messages) == [i \in DOMAIN messages |-> messages[i].type]

\* The while condition of run, and the finally block when it fails.
next_iteration(p, ctx) ==
    IF p.running /\ ctx.state = "active"
    THEN [p EXCEPT !.task = "poll"]
    ELSE [p EXCEPT !.task = "done", !.running = FALSE]

\* _send_to_frontend of the frames `messages` in turn, then `then`, the
\* processor after them.  A voice frame is handed to broadcast_voice_message,
\* and the worker waits in it while there is a matching subscriber; the
\* other frames are put on message_queue, which must have room for them.
\* finished: the record is fully processed after these frames.
sends(connection_id, ctx, p, messages, task, finished) ==
    LET out == queued(messages)
        voice == broadcasted(messages)
        matching == IF voice = <<>> THEN {}
                    ELSE {c \in DOMAIN subscribers :
                             matches_message(subscribers[c], voice[1])}
        ctx1 == [ctx EXCEPT
                    !.message_queue = @ \o out,
                    !.metrics.messages_sent = @ + Len(messages)]
        p1 == [p EXCEPT !.turn.frames = @ \o kinds(messages),
                        !.turn.finished = finished]
    IN  /\ queue_has_room(ctx.message_queue, Len(out))
        /\ context' = [context EXCEPT ![connection_id] = ctx1]
        /\ IF matching = {}
           THEN /\ processor' = [processor EXCEPT ![connection_id] =
                      IF finished THEN next_iteration(p1, ctx1)
                      ELSE [p1 EXCEPT !.task = task]]
                /\ UNCHANGED busVars
           ELSE /\ processor' = [processor EXCEPT ![connection_id] =
                                    [p1 EXCEPT !.task = "broadcasting"]]
                /\ in_flight' = Append(in_flight,
                                       Batch(voice[1], matching, EmptyDict))
                /\ UNCHANGED <<subscribers, stats>>

\* _process_with_enhancement up to the first chunk of the stream.
\* prepared: _prepare_visualization_messages returns (else it raises and
\* _send_error_response answers).
process_with_enhancement(connection_id, ctx, p, prepared) ==
    LET item == p.turn.item
        started == Message("enhancement_started", None, None, connection_id)
        p1 == [p EXCEPT !.turn.enhanced = TRUE]
    IN  IF ctx.visualization_provider = None
        THEN sends(connection_id, ctx, p1,
                   <<started, response_for(connection_id, item.source,
                                           item.thread_id)>>, "poll", TRUE)
        ELSE IF prepared
        THEN sends(connection_id,
                   [ctx EXCEPT !.metrics.viz_requests = @ + 1], p1,
                   <<started>>, "streaming", FALSE)
        ELSE sends(connection_id,
                   [ctx EXCEPT !.metrics.viz_requests = @ + 1,
                               !.metrics.errors = @ + 1], p1,
                   <<started, response_for(connection_id, item.source,
                                           item.thread_id)>>, "poll", TRUE)

process_without_enhancement(connection_id, ctx, p) ==
    sends(connection_id, ctx, [p EXCEPT !.turn.enhanced = FALSE],
          <<response_for(connection_id, p.turn.item.source,
                         p.turn.item.thread_id)>>, "poll", TRUE)

\* run is entered by the event loop (a task cancelled before its first step
\* never runs).
processor_run(connection_id) ==
    /\ processor[connection_id].task = "created"
    /\ processor' = [processor EXCEPT ![connection_id] =
          IF @.cancel THEN [@ EXCEPT !.task = "done"]
          ELSE next_iteration([@ EXCEPT !.running = TRUE], context[connection_id])]
    /\ UNCHANGED <<connections, context, websocket_open, handler_pc, cleanup_pc,
                   handles, tasks, transitions, sweep, stop_call>>

suspended(p) == p.task \in {"poll", "deciding", "streaming", "broadcasting"}

\* CancelledError is raised in the await the task is suspended in.
processor_cancelled(connection_id) ==
    /\ suspended(processor[connection_id])
    /\ processor[connection_id].cancel
    /\ processor' = [processor EXCEPT ![connection_id].task = "done",
                                      ![connection_id].running = FALSE]
    /\ UNCHANGED <<connections, context, websocket_open, handler_pc, cleanup_pc,
                   handles, tasks, transitions, sweep, stop_call>>

\* wait_for(raw_output_queue.get(), 1.0) times out on an empty queue.
poll_timeout(connection_id) ==
    /\ processor[connection_id].task = "poll"
    /\ ~processor[connection_id].cancel
    /\ context[connection_id].raw_output_queue = <<>>
    /\ processor' = [processor EXCEPT ![connection_id] =
                        next_iteration(@, context[connection_id])]
    /\ UNCHANGED <<connections, context, websocket_open, handler_pc, cleanup_pc,
                   handles, tasks, transitions, sweep, stop_call>>

\* _process_next_message gets a record: _process_message_item up to the
\* await of the enhancement decision, or through the bypass for text_chat.
process_message_item(connection_id, prepared) ==
    /\ processor[connection_id].task = "poll"
    /\ ~processor[connection_id].cancel
    /\ context[connection_id].raw_output_queue # <<>>
    /\ LET item == Head(context[connection_id].raw_output_queue)
           ctx == [context[connection_id] EXCEPT !.raw_output_queue = Tail(@)]
           ctx1 == [ctx EXCEPT !.metrics.messages_received = @ + 1]
           p == [processor[connection_id] EXCEPT
                    !.turn = [NoTurn EXCEPT !.item = item]]
       IN  IF item.empty
           THEN /\ context' = [context EXCEPT ![connection_id] = ctx]
                /\ processor' = [processor EXCEPT ![connection_id] =
                                    next_iteration(@, ctx)]
                /\ UNCHANGED busVars
           ELSE IF item.source = "text_chat"
           THEN process_with_enhancement(connection_id, ctx1, p, prepared)
           ELSE IF ctx.mcp_client = None
           THEN process_without_enhancement(connection_id, ctx1, p)
           ELSE /\ context' = [context EXCEPT ![connection_id] =
                                  [ctx1 EXCEPT !.metrics.mcp_calls = @ + 1]]
                /\ processor' = [processor EXCEPT ![connection_id] =
                                    [p EXCEPT !.task = "deciding"]]
                /\ UNCHANGED busVars
    /\ UNCHANGED <<connections, websocket_open, handler_pc, cleanup_pc, handles,
                   tasks, transitions, sweep, stop_call>>

\* make_enhancement_decision_streaming returns its decision (or raises,
\* which is the decision not to enhance).
enhancement_decision(connection_id, displayEnhancement, prepared) ==
    /\ processor[connection_id].task = "deciding"
    /\ ~processor[connection_id].cancel
    /\ IF displayEnhancement
       THEN process_with_enhancement(connection_id, context[connection_id],
                                     processor[connection_id], prepared)
       ELSE process_without_enhancement(connection_id, context[connection_id],
                                        processor[connection_id])
    /\ UNCHANGED <<connections, websocket_open, handler_pc, cleanup_pc, handles,
                   tasks, transitions, sweep, stop_call>>

\* _stream_visualization_response: stream_response yields a chunk, which is
\* sent as a token of the provider's kind.
stream_chunk(connection_id) ==
    /\ processor[connection_id].task = "streaming"
    /\ ~processor[connection_id].cancel
    /\ processor[connection_id].turn.chunks < MaxChunks
    /\ sends(connection_id, context[connection_id],
             [processor[connection_id] EXCEPT !.turn.chunks = @ + 1],
             <<ui_token(connection_id, context[connection_id].config)>>,
             "streaming", FALSE)
    /\ UNCHANGED <<connections, websocket_open, handler_pc, cleanup_pc, handles,
                   tasks, transitions, sweep, stop_call>>

\* The stream ends: chat_done.
stream_done(connection_id) ==
    /\ processor[connection_id].task = "streaming"
    /\ ~processor[connection_id].cancel
    /\ sends(connection_id, context[connection_id], processor[connection_id],
             <<Message("chat_done", None, None, connection_id)>>, "poll", TRUE)
    /\ UNCHANGED <<connections, websocket_open, handler_pc, cleanup_pc, handles,
                   tasks, transitions, sweep, stop_call>>

\* A worker that stops running when the stream raises.
stream_raises_stopping(connection_id) ==
    /\ processor[connection_id].task = "streaming"
    /\ ~processor[connection_id].cancel
    /\ sends(connection_id, context[connection_id],
             [processor[connection_id] EXCEPT !.running = FALSE],
             <<response_for(connection_id, "text_chat",
                            processor[connection_id].turn.item.thread_id)>>,
             "poll", TRUE)
    /\ UNCHANGED <<connections, websocket_open, handler_pc, cleanup_pc, handles,
                   tasks, transitions, sweep, stop_call>>

\* The stream raises: the fallback is a simple response with source
\* "text_chat".
stream_raises(connection_id) ==
    /\ processor[connection_id].task = "streaming"
    /\ ~processor[connection_id].cancel
    /\ sends(connection_id, context[connection_id], processor[connection_id],
             <<response_for(connection_id, "text_chat",
                            processor[connection_id].turn.item.thread_id)>>,
             "poll", TRUE)
    /\ UNCHANGED <<connections, websocket_open, handler_pc, cleanup_pc, handles,
                   tasks, transitions, sweep, stop_call>>

\* The bus-bridge task of a control channel subscribes it to the bus, once,
\* with the media thread of its connection (none is linked here).  The task
\* of a connection of the registry is spawned with its sender and receiver.
bus_bridge(connection_id) ==
    /\ connection_id \in ConnIds => handler_pc[connection_id] = "loops"
    /\ connection_id \notin DOMAIN subscribers
    /\ subscribe(connection_id, None)

\* broadcast returns to the worker once its deliveries have run.
broadcast_returned(connection_id) ==
    /\ processor[connection_id].task = "broadcasting"
    /\ ~processor[connection_id].cancel
    /\ \A i \in DOMAIN in_flight : in_flight[i].message.origin # connection_id
    /\ processor' = [processor EXCEPT ![connection_id] =
                        next_iteration(@, context[connection_id])]
    /\ UNCHANGED <<connections, context, websocket_open, handler_pc, cleanup_pc,
                   handles, tasks, transitions, sweep, stop_call>>

\* ========================================================================
\* Media pipelines of the connections: app/voice_manager.py and the voice
\* agent methods of app/connection_manager.py
\* ========================================================================

\* Connections that register a media pipeline in a run.
NumVoiceConns == 2
VoiceConnIds == 1..NumVoiceConns

\* Every connection id a context is made for.
ContextIds == ConnIds \cup VoiceConnIds

\* register_voice_agent: the agent of a connection is named by the
\* connection's id.
register_voice_agent(connection_id, voice_thread_id) ==
    /\ IF ~registered(connection_id)
       THEN UNCHANGED <<context, busVars>>
       ELSE /\ context' = [context EXCEPT
                              ![connection_id].voice_agent = connection_id,
                              ![connection_id].voice_thread_id = voice_thread_id]
            /\ update_thread_id(connection_id, voice_thread_id)
    /\ UNCHANGED <<connections, websocket_open, handler_pc, cleanup_pc, handles,
                   tasks, processor, transitions, sweep, stop_call, injected>>

unregister_voice_agent(connection_id) ==
    /\ context' = IF registered(connection_id)
                     /\ context[connection_id].voice_agent # None
                  THEN [context EXCEPT ![connection_id].voice_agent = None,
                                       ![connection_id].voice_thread_id = None]
                  ELSE context
    /\ UNCHANGED <<connections, websocket_open, handler_pc, cleanup_pc, handles,
                   tasks, processor, transitions, sweep, stop_call, injected>>

\* ConnectionAwareVoiceManager.register_voice_agent: the registry registers
\* the agent, and on success the thread is mapped to the connection.
voice_manager_register_voice_agent(connection_id, voice_thread_id) ==
    /\ register_voice_agent(connection_id, voice_thread_id)
    /\ thread_to_connection_map' =
          IF registered(connection_id)
          THEN DictSet(thread_to_connection_map, voice_thread_id, connection_id)
          ELSE thread_to_connection_map

\* ConnectionAwareVoiceManager.unregister_voice_agent: the first thread found
\* for the connection is removed from the map (any of them: the order of the
\* dict is the order of insertion, which the map does not keep), then the
\* registry unregisters the agent.
voice_manager_unregister_voice_agent(connection_id) ==
    /\ unregister_voice_agent(connection_id)
    /\ LET threads == {t \in DOMAIN thread_to_connection_map :
                          thread_to_connection_map[t] = connection_id}
       IN  IF threads = {}
           THEN UNCHANGED thread_to_connection_map
           ELSE \E thread_id_to_remove \in threads :
                   thread_to_connection_map' =
                       DictPop(thread_to_connection_map, thread_id_to_remove)

\* The connection_id returned with the agent: that of the first context, in
\* the order of the registry, whose voice_thread_id is thread_id.
get_voice_agent_by_thread_id(thread_id) ==
    LET found == SelectSeq(connections,
                           LAMBDA c : context[c].voice_thread_id = thread_id)
    IN  IF found = <<>> THEN None ELSE Head(found)

\* inject_tts_to_connection: the agent of connection_id speaks the voice-over
\* that the worker of `origin` produced.
inject_tts_to_connection(connection_id, origin) ==
    injected' = IF registered(connection_id)
                   /\ context[connection_id].voice_agent # None
                THEN [injected EXCEPT ![connection_id] = @ \cup {origin}]
                ELSE injected

\* ConnectionAwareVoiceManager.inject_tts_voice_over with a non-empty text:
\* the thread id is tried first, the connection id only without one.
inject_tts_voice_over(target_thread_id, target_connection_id) ==
    IF target_thread_id # None
    THEN LET connection_id ==
                 get_voice_agent_by_thread_id(target_thread_id)
         IN  IF connection_id # None
                /\ context[connection_id].voice_agent # None
             THEN inject_tts_to_connection(connection_id, target_connection_id)
             ELSE UNCHANGED injected
    ELSE inject_tts_to_connection(target_connection_id, target_connection_id)

\* _inject_voice_over_callback of the worker of connection_id, called with
\* the voice-over text of the record it is deciding on.
inject_voice_over_callback(connection_id) ==
    /\ registered(connection_id)
    /\ inject_tts_voice_over(context[connection_id].voice_thread_id,
                             connection_id)
    /\ UNCHANGED <<connections, context, websocket_open, handler_pc, cleanup_pc,
                   handles, tasks, processor, transitions, sweep, stop_call>>

\* ========================================================================
\* Enhancement decider: src/mcp/enhanced_mcp_client.py
\* ========================================================================

\* The names a function call of the model can carry: a tool of an HTTP
\* server, a tool of a STDIO server with its stored session, a tool of a
\* STDIO server whose stored session is None, and a name that is not a key
\* of available_tools.
ToolKeys == {"http_tool", "stdio_tool", "stdio_closed", "unknown_tool"}

\* The decision of both except-free fallbacks of the method without tools:
\* no enhancement, the assistant's response as display text and as
\* voice-over.
Fallback == [displayEnhancement |-> FALSE,
             displayEnhancedText |-> "assistant_response",
             voiceOverText |-> "assistant_response"]

\* No call in progress.  func_name is the tool the model requested,
\* unanswered the await of _call_tool in which its server let 20 seconds
\* pass, timed_out the call to the model that was cut after 30 seconds,
\* voice_feedback the number of times the tool-usage line was spoken.
NoDecider == [pc |-> "idle", functions |-> FALSE, callback |-> FALSE,
              func_name |-> "none", tool_result |-> "none",
              unanswered |-> "none", timed_out |-> "none",
              voice_feedback |-> 0,
              result |-> [displayEnhancement |-> FALSE,
                          displayEnhancedText |-> "none",
                          voiceOverText |-> "none"]]

\* make_enhancement_decision_streaming is called: with tools in
\* available_tools the model is first asked whether it wants one of them,
\* without tools the decision is streamed at once.
make_enhancement_decision_streaming(functions, callback) ==
    /\ decider.pc \in {"idle", "returned"}
    /\ decider' = [NoDecider EXCEPT
                      !.pc = IF functions THEN "first_call" ELSE "stream",
                      !.functions = functions,
                      !.callback = callback]

\* _call_tool has returned tool_result: the tool-usage line is spoken
\* through the callback, the result is appended to the messages and the
\* final decision is streamed.
tool_returns(d, tool_result) ==
    [d EXCEPT !.tool_result = tool_result,
              !.voice_feedback = IF d.callback THEN @ + 1 ELSE @,
              !.pc = "stream"]

\* _call_tool up to its first await.
call_tool(d, tool_key) ==
    IF tool_key = "unknown_tool"
    THEN tool_returns(d, "Error: Tool not found")
    ELSE IF tool_key = "http_tool"
    THEN [d EXCEPT !.pc = "connect"]
    ELSE IF tool_key = "stdio_closed"
    THEN tool_returns(d, "Error: No session available")
    ELSE [d EXCEPT !.pc = "call_tool"]

\* The first call to the model, under wait_for with 30 seconds, ends: with a
\* plain reply, with a function call whose arguments json.loads accepts or
\* rejects, with an exception, or cut by the timeout.  Every exception is
\* caught by the except of the method, which returns the fallback.
completions_create_waiting(outcome, func_name) ==
    /\ decider.pc = "first_call"
    /\ decider' =
          IF outcome = "reply"
          THEN [decider EXCEPT !.pc = "stream"]
          ELSE IF outcome = "function_call"
          THEN call_tool([decider EXCEPT !.func_name = func_name], func_name)
          ELSE IF outcome = "malformed_arguments"
          THEN [decider EXCEPT !.func_name = func_name,
                               !.pc = "returned", !.result = Fallback]
          ELSE IF outcome = "timeout"
          THEN [decider EXCEPT !.timed_out = "first_call"]
          ELSE [decider EXCEPT !.pc = "returned", !.result = Fallback]

completions_create(outcome, func_name) ==
    /\ decider.pc = "first_call"
    /\ decider' =
          IF outcome = "reply"
          THEN [decider EXCEPT !.pc = "stream"]
          ELSE IF outcome = "function_call"
          THEN call_tool([decider EXCEPT !.func_name = func_name], func_name)
          ELSE IF outcome = "malformed_arguments"
          THEN [decider EXCEPT !.func_name = func_name,
                               !.pc = "returned", !.result = Fallback]
          ELSE IF outcome = "timeout"
          THEN [decider EXCEPT !.timed_out = "first_call",
                               !.pc = "returned", !.result = Fallback]
          ELSE [decider EXCEPT !.pc = "returned", !.result = Fallback]

\* An await of _call_tool ends or lets 20 seconds pass.  Opening the HTTP
\* stream and session.initialize are awaited without a time limit: a silent
\* server leaves the call where it is.  session.call_tool is awaited under
\* wait_for with 20 seconds, and every exception becomes an error string.
call_tool_awaits(outcome) ==
    /\ decider.pc \in {"connect", "initialize", "call_tool"}
    /\ outcome = "is_error" => decider.pc = "call_tool"
    /\ decider' =
          IF outcome = "raises"
          THEN tool_returns(decider, "Error calling tool")
          ELSE IF decider.pc = "call_tool"
          THEN IF outcome = "silent"
               THEN tool_returns([decider EXCEPT !.unanswered = "call_tool"],
                                 "Error: Tool call timed out")
               ELSE IF outcome = "is_error"
               THEN tool_returns(decider, "Error: tool error")
               ELSE tool_returns(decider, "tool text")
          ELSE IF outcome = "silent"
          THEN [decider EXCEPT !.unanswered = decider.pc]
          ELSE [decider EXCEPT !.pc = IF decider.pc = "connect"
                                      THEN "initialize" ELSE "call_tool"]

\* stream_enhancement_decision of the generator ends: with a decision, with
\* no decision (structured parsing and its retry failed), with an exception,
\* or cut by its timeout of 30 seconds, which is raised to the caller.  After
\* a tool call the method forces displayEnhancement and fills an empty
\* voice-over, and replaces a missing decision by the tool's result.
stream_enhancement_decision(outcome, displayEnhancement, voiceOverText) ==
    /\ decider.pc = "stream"
    /\ decider' =
          IF outcome = "decision"
          THEN [decider EXCEPT
                   !.pc = "returned",
                   !.result =
                       IF decider.func_name # "none"
                       THEN [displayEnhancement |-> TRUE,
                             displayEnhancedText |-> "model text",
                             voiceOverText |-> IF voiceOverText = ""
                                               THEN "I used the tool"
                                               ELSE voiceOverText]
                       ELSE [displayEnhancement |-> displayEnhancement,
                             displayEnhancedText |-> "model text",
                             voiceOverText |-> voiceOverText]]
          ELSE IF outcome = "no_decision"
          THEN [decider EXCEPT
                   !.pc = "returned",
                   !.result =
                       IF decider.func_name # "none"
                       THEN [displayEnhancement |-> TRUE,
                             displayEnhancedText |-> "Tool Result",
                             voiceOverText |-> "I used the tool"]
                       ELSE Fallback]
          ELSE [decider EXCEPT
                   !.pc = "returned",
                   !.result = Fallback,
                   !.timed_out = IF outcome = "timeout" THEN "stream" ELSE @]

\* ========================================================================
\* HTML provider: app/viz_provider_factory.py (OpenAIProvider)
\* ========================================================================

\* Characters of the value of htmlContent as it travels inside the JSON text:
\* two letters, the backslash and the double quote.  In a well-formed value
\* a backslash is followed by the quote, a backslash or the letter n, and a
\* quote only follows a backslash that escapes it.
MaxRaw == 4
MaxEvent == 2
RawChars == {"a", "n", "backslash", "quote"}

RECURSIVE well_formed(_)
well_formed(raw) ==
    IF raw = <<>> THEN TRUE
    ELSE IF Head(raw) = "backslash"
    THEN Len(raw) >= 2 /\ raw[2] \in {"quote", "backslash", "n"}
            /\ well_formed(Tail(Tail(raw)))
    ELSE Head(raw) # "quote" /\ well_formed(Tail(raw))

Responses ==
    {raw \in UNION {[1..n -> RawChars] : n \in 1..MaxRaw} : well_formed(raw)}

\* json.loads of a string body: the escapes \", \\ and \n become the quote,
\* the backslash and the line feed.  It raises for a body that ends inside an
\* escape.
RECURSIVE decodable(_)
decodable(raw) ==
    IF raw = <<>> THEN TRUE
    ELSE IF Head(raw) = "backslash"
    THEN Len(raw) >= 2 /\ decodable(Tail(Tail(raw)))
    ELSE decodable(Tail(raw))

RECURSIVE json_loads(_)
json_loads(raw) ==
    IF raw = <<>> THEN <<>>
    ELSE IF Head(raw) = "backslash"
    THEN <<IF raw[2] = "n" THEN "line feed" ELSE raw[2]>>
             \o json_loads(Tail(Tail(raw)))
    ELSE <<Head(raw)>> \o json_loads(Tail(raw))

\* group(1) of the pattern "htmlContent"\s*:\s*"([^"]*(?:\\.[^"]*)*)"? on the
\* buffer: [^"]* takes every character up to the first double quote, escaped
\* or not, and the optional closing quote then matches that quote, so the
\* search succeeds without ever entering the group for escapes.
RECURSIVE raw_content(_)
raw_content(json_buffer) ==
    IF json_buffer = <<>> \/ Head(json_buffer) = "quote" THEN <<>>
    ELSE <<Head(json_buffer)>> \o raw_content(Tail(json_buffer))

suffix(content, already_yielded) ==
    SubSeq(content, already_yielded + 1, Len(content))

\* _extract_html_content_chunk: the new part of the unescaped content, or of
\* the raw content when json.loads raises; <<>> stands for None.
extract_html_content_chunk(json_buffer, already_yielded) ==
    LET raw == raw_content(json_buffer)
    IN  IF decodable(raw)
        THEN IF Len(json_loads(raw)) > already_yielded
             THEN suffix(json_loads(raw), already_yielded)
             ELSE <<>>
        ELSE IF Len(raw) > already_yielded
             THEN suffix(raw, already_yielded)
             ELSE <<>>

\* No stream.  response is the value of htmlContent the model is sending,
\* json_buffer the part of it that has arrived (the text before the value is
\* taken to arrive with the first event), yielded the fragments yielded so
\* far, one after the other.
NoStream == [pc |-> "idle", response |-> <<>>, json_buffer |-> <<>>,
             html_content_yielded |-> 0, yielded |-> <<>>]

\* stream_response is called and the stream is opened.
stream_response(response) ==
    /\ viz.pc \in {"idle", "done"}
    /\ viz' = [NoStream EXCEPT !.pc = "streaming", !.response = response]

\* An event with the next characters of the response: they are added to
\* json_buffer, and the newly available content is yielded.
stream_event(n) ==
    /\ viz.pc = "streaming"
    /\ Len(viz.json_buffer) + n <= Len(viz.response)
    /\ LET json_buffer == SubSeq(viz.response, 1, Len(viz.json_buffer) + n)
           html_chunk == extract_html_content_chunk(json_buffer,
                                                    viz.html_content_yielded)
       IN  viz' = [viz EXCEPT
                      !.json_buffer = json_buffer,
                      !.html_content_yielded = @ + Len(html_chunk),
                      !.yielded = @ \o html_chunk]

\* The stream is exhausted: the complete response is parsed and what was
\* not yielded of its htmlContent, counted in characters, is yielded.
stream_completed ==
    /\ viz.pc = "streaming"
    /\ viz.json_buffer = viz.response
    /\ LET htmlContent == json_loads(viz.response)
       IN  viz' = [viz EXCEPT
                      !.pc = "done",
                      !.yielded =
                          IF Len(htmlContent) > viz.html_content_yielded
                          THEN @ \o suffix(htmlContent,
                                           viz.html_content_yielded)
                          ELSE @]

\* ========================================================================
\* Connection configuration: app/models.py (MCPClientConfig)
\* ========================================================================

\* Largest number of servers in a configuration, and largest max_servers.
MaxServerCount == 11
DefaultMaxServers == 10

\* The fields of MCPClientConfig in the order of their declaration, which is
\* the order in which they are validated.
MCPClientConfigFields ==
    <<"model", "api_key_env", "servers", "timeout", "max_servers">>

\* The dict `values` handed to a validator of field: the fields that were
\* validated before it.
values_for(field, data) ==
    LET before == {MCPClientConfigFields[i] : i \in
                      {i \in 1..Len(MCPClientConfigFields) :
                          \E j \in 1..Len(MCPClientConfigFields) :
                              /\ MCPClientConfigFields[j] = field
                              /\ i < j}}
    IN  [f \in before \cap DOMAIN data |-> data[f]]

\* validate_servers: TRUE when it returns v, FALSE when it raises ValueError.
\* v is the list of servers by its length and the number of distinct names.
validate_servers(v, values) ==
    LET max_servers == IF "max_servers" \in DOMAIN values
                       THEN values["max_servers"] ELSE DefaultMaxServers
    IN  /\ ~(v.len > max_servers)
        /\ ~(v.len # v.names)

NoConfig == [servers |-> [len |-> 0, names |-> 0],
             max_servers |-> DefaultMaxServers, accepted |-> "not constructed"]

\* MCPClientConfig(servers=..., max_servers=...): the configuration is
\* constructed (accepted) or ValidationError is raised.
MCPClientConfig(servers, max_servers) ==
    LET data == [model |-> "gpt-4o-mini", api_key_env |-> "OPENAI_API_KEY",
                 servers |-> servers, timeout |-> 30,
                 max_servers |-> max_servers]
    IN  client_config' =
            [servers |-> servers, max_servers |-> max_servers,
             accepted |-> IF validate_servers(servers,
                                              values_for("servers", data))
                          THEN "yes" ELSE "no"]

\* ------------------------------------------------------------------------
\* Next-state relations of the connection registry and of the worker
\* ------------------------------------------------------------------------
otherVars == <<sessVars, routeVars, voiceVars, decider, moreVars>>

HandlerNext ==
    \/ \E c \in ConnIds : register_connection(c) /\ UNCHANGED <<otherVars, busVars>>
    \/ \E c \in ConnIds : connection_established(c) /\ UNCHANGED <<otherVars, busVars>>
    \/ \E c \in ConnIds, f \in ConfigFrames :
          wait_for_configuration(c, f) /\ UNCHANGED <<otherVars, busVars>>
    \/ \E c \in ConnIds, valid \in BOOLEAN :
          validate_config(c, valid) /\ UNCHANGED <<otherVars, busVars>>
    \/ \E c \in ConnIds : configure_failed(c) /\ UNCHANGED <<otherVars, busVars>>
    \/ \E c \in ConnIds : initialize_mcp_client(c) /\ UNCHANGED <<otherVars, busVars>>
    \/ \E c \in ConnIds : write_temp_config(c) /\ UNCHANGED <<otherVars, busVars>>
    \/ \E c \in ConnIds : mcp_client_initialize(c) /\ UNCHANGED <<otherVars, busVars>>
    \/ \E c \in ConnIds, ok \in BOOLEAN :
          mcp_client_initialized(c, ok) /\ UNCHANGED <<otherVars, busVars>>
    \/ \E c \in ConnIds : mcp_client_ready(c) /\ UNCHANGED <<otherVars, busVars>>
    \/ \E c \in ConnIds : initialize_viz_provider(c) /\ UNCHANGED <<otherVars, busVars>>
    \/ \E c \in ConnIds : create_provider(c) /\ UNCHANGED <<otherVars, busVars>>
    \/ \E c \in ConnIds, ok \in BOOLEAN :
          provider_created(c, ok) /\ UNCHANGED <<otherVars, busVars>>
    \/ \E c \in ConnIds : viz_provider_ready(c) /\ UNCHANGED <<otherVars, busVars>>
    \/ \E c \in ConnIds : connection_ready(c) /\ UNCHANGED <<otherVars, busVars>>
    \/ \E c \in ConnIds : start_processor(c) /\ UNCHANGED <<otherVars, busVars>>
    \/ \E c \in ConnIds : run_connection_loops(c) /\ UNCHANGED <<otherVars, busVars>>
    \/ \E c \in ConnIds : loops_completed(c) /\ UNCHANGED <<otherVars, busVars>>
    \/ \E c \in ConnIds : client_disconnect(c) /\ UNCHANGED <<otherVars, busVars>>
    \/ \E c \in ConnIds : per_connection_sender(c) /\ UNCHANGED <<otherVars, busVars>>
    \/ \E c \in ConnIds : per_connection_receiver(c) /\ UNCHANGED <<otherVars, busVars>>
    \/ \E c \in ConnIds : processor_run(c) /\ UNCHANGED <<otherVars, busVars>>
    \/ \E c \in ConnIds : processor_cancelled(c) /\ UNCHANGED <<otherVars, busVars>>
    \/ \E c \in ConnIds : poll_timeout(c) /\ UNCHANGED <<otherVars, busVars>>

ConnNext ==
    \/ HandlerNext
    \/ \E c \in ConnIds, t \in SessThreadIds :
          receive_chat(c, "invalid", t) /\ UNCHANGED <<otherVars, busVars>>
    \/ \E c \in ConnIds, t \in Triggers :
          cleanup_connection(c, t) /\ UNCHANGED <<otherVars, busVars>>
    \/ \E c \in ConnIds, t \in Triggers : cleanup_notified(c, t) /\ UNCHANGED otherVars
    \/ \E c \in ConnIds, t \in Triggers : cleanup_task_waited(c, t) /\ UNCHANGED otherVars
    \/ \E c \in ConnIds, t \in Triggers : cleanup_mcp_closed(c, t) /\ UNCHANGED otherVars
    \/ \E c \in ConnIds, t \in Triggers : cleanup_viz_cleaned(c, t) /\ UNCHANGED otherVars
    \/ hour_passes /\ UNCHANGED <<otherVars, busVars>>
    \/ periodic_cleanup /\ UNCHANGED <<otherVars, busVars>>
    \/ stop /\ UNCHANGED <<otherVars, busVars>>

WorkerNext ==
    \/ HandlerNext
    \/ \E c \in ConnIds, f \in ChatFrames, t \in SessThreadIds :
          receive_chat(c, f, t) /\ UNCHANGED <<otherVars, busVars>>
    \/ \E c \in ConnIds, src \in ProducerSources, t \in SessThreadIds :
          enqueue_raw_output(c, Item(FALSE, src, t)) /\ UNCHANGED <<otherVars, busVars>>
    \/ \E c \in ConnIds, prepared \in BOOLEAN :
          process_message_item(c, prepared) /\ UNCHANGED otherVars
    \/ \E c \in ConnIds, d \in BOOLEAN, prepared \in BOOLEAN :
          enhancement_decision(c, d, prepared) /\ UNCHANGED otherVars
    \/ \E c \in ConnIds : stream_chunk(c) /\ UNCHANGED otherVars
    \/ \E c \in ConnIds : stream_done(c) /\ UNCHANGED otherVars
    \/ \E c \in ConnIds : stream_raises(c) /\ UNCHANGED otherVars
    \/ \E c \in ConnIds : broadcast_returned(c) /\ UNCHANGED <<otherVars, busVars>>
    \/ \E c \in ConnIds :
          cleanup_connection(c, "handler") /\ UNCHANGED <<otherVars, busVars>>
    \/ \E c \in ConnIds : cleanup_notified(c, "handler") /\ UNCHANGED otherVars
    \/ \E c \in ConnIds : cleanup_task_waited(c, "handler") /\ UNCHANGED otherVars
    \/ \E c \in ConnIds : cleanup_mcp_closed(c, "handler") /\ UNCHANGED otherVars
    \/ \E c \in ConnIds : cleanup_viz_cleaned(c, "handler") /\ UNCHANGED otherVars
    \/ \E c \in WsIds : bus_bridge(c) /\ UNCHANGED <<otherVars, connVars>>
    \/ broadcast_deliver /\ UNCHANGED <<otherVars, connVars>>
    \/ \E c \in WsIds : queue_get(c) /\ UNCHANGED <<otherVars, connVars>>

\* Connections that register and unregister media pipelines, hear voice-over
\* and are torn down by their handlers before any configuration.
vnVars == <<sessVars, routeVars>>
VoiceNext ==
    \/ \E c \in VoiceConnIds :
          register_connection(c) /\ UNCHANGED <<vnVars, busVars, voiceVars, decider, moreVars>>
    \/ \E c \in VoiceConnIds :
          connection_established(c) /\ UNCHANGED <<vnVars, busVars, voiceVars, decider, moreVars>>
    \/ \E c \in VoiceConnIds :
          client_disconnect(c) /\ UNCHANGED <<vnVars, busVars, voiceVars, decider, moreVars>>
    \/ \E c \in VoiceConnIds :
          wait_for_configuration(c, "timeout")
             /\ UNCHANGED <<vnVars, busVars, voiceVars, decider, moreVars>>
    \/ \E c \in VoiceConnIds, t \in ThreadIds :
          register_voice_agent(c, t) /\ UNCHANGED <<vnVars, decider, moreVars>>
    \/ \E c \in VoiceConnIds :
          unregister_voice_agent(c) /\ UNCHANGED <<vnVars, busVars, decider, moreVars>>
    \/ \E c \in VoiceConnIds :
          inject_voice_over_callback(c) /\ UNCHANGED <<vnVars, busVars, decider, moreVars>>
    \/ \E c \in VoiceConnIds :
          cleanup_connection(c, "handler")
             /\ UNCHANGED <<vnVars, busVars, voiceVars, decider, moreVars>>
    \/ \E c \in VoiceConnIds :
          cleanup_notified(c, "handler") /\ UNCHANGED <<vnVars, voiceVars, decider, moreVars>>

\* ========================================================================
\* Specifications
\* ========================================================================

\* ========================================================================
\* Connection mapper: app/connection_mapper.py
\* ========================================================================

\* The control ids and the media ids offered to the mapper.
NumMapperWs == 3
NumMapperRtc == 3
MapperWsIds == 1..NumMapperWs
MapperRtcIds == 1..NumMapperRtc

\* ConnectionMapper.__init__.  connection_times keeps, for a media id, whether
\* the time of its link is within max_age ("fresh") or older ("stale").
ConnectionMapper ==
    [rtc_to_ws |-> EmptyDict, ws_to_rtc |-> EmptyDict,
     active_ws |-> {}, active_rtc |-> {}, connection_times |-> EmptyDict]

\* link_connections keeping the mappings of the previous partners.
link_connections_keeping_old(ws_id, rtc_id) ==
    IF rtc_id \in DOMAIN mapper.rtc_to_ws /\ mapper.rtc_to_ws[rtc_id] = ws_id
    THEN UNCHANGED mapper
    ELSE mapper' =
            [mapper EXCEPT
                !.rtc_to_ws = DictSet(@, rtc_id, ws_id),
                !.ws_to_rtc = DictSet(@, ws_id, rtc_id),
                !.active_ws = @ \cup {ws_id},
                !.active_rtc = @ \cup {rtc_id},
                !.connection_times = DictSet(@, rtc_id, "fresh")]

\* link_connections: False when the pair is already linked; otherwise the
\* mapping of the media id's previous control id and that of the control
\* id's previous media id are removed and the pair is written both ways.
link_connections(ws_id, rtc_id) ==
    IF rtc_id \in DOMAIN mapper.rtc_to_ws /\ mapper.rtc_to_ws[rtc_id] = ws_id
    THEN UNCHANGED mapper
    ELSE LET existing_ws == DictGet(mapper.rtc_to_ws, rtc_id)
             ws_to_rtc1 == IF existing_ws # None
                           THEN DictPop(mapper.ws_to_rtc, existing_ws)
                           ELSE mapper.ws_to_rtc
             old_rtc == DictGet(ws_to_rtc1, ws_id)
             rtc_to_ws1 == IF old_rtc # None /\ old_rtc # rtc_id
                           THEN DictPop(mapper.rtc_to_ws, old_rtc)
                           ELSE mapper.rtc_to_ws
         IN  mapper' =
                [mapper EXCEPT
                    !.rtc_to_ws = DictSet(rtc_to_ws1, rtc_id, ws_id),
                    !.ws_to_rtc = DictSet(ws_to_rtc1, ws_id, rtc_id),
                    !.active_ws = @ \cup {ws_id},
                    !.active_rtc = @ \cup {rtc_id},
                    !.connection_times = DictSet(@, rtc_id, "fresh")]

\* The fields after unlink_rtc(rtc_id) on the fields m.
unlinked_rtc(m, rtc_id) ==
    LET ws_id == DictGet(m.rtc_to_ws, rtc_id)
    IN  IF ws_id # None
        THEN [m EXCEPT !.rtc_to_ws = DictPop(@, rtc_id),
                       !.ws_to_rtc = DictPop(@, ws_id),
                       !.active_rtc = @ \ {rtc_id},
                       !.connection_times = DictPop(@, rtc_id)]
        ELSE m

unlink_rtc(rtc_id) == mapper' = unlinked_rtc(mapper, rtc_id)

unlink_ws(ws_id) ==
    LET rtc_id == DictGet(mapper.ws_to_rtc, ws_id)
    IN  IF rtc_id # None
        THEN mapper' = [mapper EXCEPT !.ws_to_rtc = DictPop(@, ws_id),
                                      !.rtc_to_ws = DictPop(@, rtc_id),
                                      !.active_ws = @ \ {ws_id}]
        ELSE UNCHANGED mapper

\* The clock passes max_age after the link time of rtc_id.
link_time_expires(rtc_id) ==
    /\ rtc_id \in DOMAIN mapper.connection_times
    /\ mapper.connection_times[rtc_id] = "fresh"
    /\ mapper' = [mapper EXCEPT !.connection_times[rtc_id] = "stale"]

RECURSIVE unlinked_all(_, _)
unlinked_all(m, stale_connections) ==
    IF stale_connections = {} THEN m
    ELSE LET rtc_id == CHOOSE r \in stale_connections : TRUE
         IN  unlinked_all(unlinked_rtc(m, rtc_id), stale_connections \ {rtc_id})

\* cleanup_stale_connections: the media ids whose link time is older than
\* max_age are collected, then unlink_rtc runs for each.  The lock is free
\* at every acquisition, so the coroutine never suspends.
cleanup_stale_connections ==
    LET stale_connections == {r \in DOMAIN mapper.connection_times :
                                 mapper.connection_times[r] = "stale"}
    IN  /\ stale_connections # {}
        /\ mapper' = unlinked_all(mapper, stale_connections)


\* One decision after another of one client.
DeciderNext ==
    \/ \E functions \in BOOLEAN, callback \in BOOLEAN :
          /\ make_enhancement_decision_streaming(functions, callback)
          /\ UNCHANGED <<sessVars, routeVars, busVars, connVars, voiceVars,
                       moreVars>>
    \/ \E outcome \in {"reply", "function_call", "malformed_arguments",
                       "raises", "timeout"}, func_name \in ToolKeys :
          /\ completions_create(outcome, func_name)
          /\ UNCHANGED <<sessVars, routeVars, busVars, connVars, voiceVars,
                       moreVars>>
    \/ \E outcome \in {"answers", "is_error", "raises", "silent"} :
          /\ call_tool_awaits(outcome)
          /\ UNCHANGED <<sessVars, routeVars, busVars, connVars, voiceVars,
                       moreVars>>
    \/ \E outcome \in {"decision", "no_decision", "raises", "timeout"},
          displayEnhancement \in BOOLEAN, voiceOverText \in {"", "model voice"} :
          /\ stream_enhancement_decision(outcome, displayEnhancement,
                                         voiceOverText)
          /\ UNCHANGED <<sessVars, routeVars, busVars, connVars, voiceVars,
                       moreVars>>

\* The state after construction of the module-level singletons.
Init ==
    /\ sessions = EmptyDict
    /\ ws_to_session = EmptyDict
    /\ rtc_to_session = EmptyDict
    /\ stale_sessions = {}
    /\ sm_last = NoOp
    /\ agent_conn = EmptyDict
    /\ routed = NoFrame
    /\ subscribers = EmptyDict
    /\ stats = NoStats
    /\ in_flight = <<>>
    /\ connections = <<>>
    /\ context = [c \in ContextIds |-> ConnectionContext]
    /\ websocket_open = [c \in ContextIds |-> TRUE]
    /\ handler_pc = [c \in ContextIds |-> "none"]
    /\ cleanup_pc = [c \in ContextIds |-> [t \in Triggers |-> "idle"]]
    /\ handles = [c \in ContextIds |-> NoHandles]
    /\ tasks = [c \in ContextIds |-> NoTasks]
    /\ processor = [c \in ContextIds |-> NoProcessor]
    /\ transitions = {}
    /\ sweep = [task |-> "sleeping", stale_connections |-> <<>>]
    /\ stop_call = [pc |-> "idle", connection_ids |-> <<>>]
    /\ injected = [c \in ContextIds |-> {}]
    /\ decider = NoDecider
    /\ viz = NoStream
    /\ client_config = NoConfig
    /\ channel = [c \in ContextIds |-> 0]
    /\ thread_to_connection_map = EmptyDict
    /\ mapper = ConnectionMapper

SpecSession == Init /\ [][SessionNext]_vars
SpecRoute == Init /\ [][RouteNext]_vars
SpecBus == Init /\ [][BusNext]_vars
SpecConn == Init /\ [][ConnNext]_vars
SpecWorker == Init /\ [][WorkerNext]_vars
SpecVoice == Init /\ [][VoiceNext]_vars
SpecDecider == Init /\ [][DeciderNext]_vars

\* One response after another of one HTML provider.
ProviderNext ==
    \/ \E response \in Responses :
          stream_response(response)
              /\ UNCHANGED notViz
    \/ \E n \in 1..MaxEvent :
          stream_event(n)
              /\ UNCHANGED notViz
    \/ stream_completed
          /\ UNCHANGED notViz

SpecProvider == Init /\ [][ProviderNext]_vars

\* Configurations are constructed one after another.
ConfigNext ==
    \E len \in 0..MaxServerCount, max_servers \in 0..MaxServerCount :
        \E names \in {n \in {len, len - 1} : n >= 0 /\ (len > 0 => n > 0)} :
            MCPClientConfig([len |-> len, names |-> names], max_servers)
                /\ UNCHANGED notConfig

SpecConfig == Init /\ [][ConfigNext]_vars

\* The steps the event loop takes for connection_id without waiting for
\* anything outside the process: the handler resuming from asyncio.wait, a
\* cancelled or newly created worker being run, and the handler's call of
\* cleanup_connection resuming from each of its awaits.
handler_resumes(connection_id) ==
    \/ /\ \/ loops_completed(connection_id)
          \/ processor_run(connection_id)
          \/ processor_cancelled(connection_id)
          \/ cleanup_connection(connection_id, "handler")
       /\ UNCHANGED <<otherVars, busVars>>
    \/ /\ \/ cleanup_notified(connection_id, "handler")
          \/ cleanup_task_waited(connection_id, "handler")
          \/ cleanup_mcp_closed(connection_id, "handler")
          \/ cleanup_viz_cleaned(connection_id, "handler")
       /\ UNCHANGED otherVars

\* The registry while the process is not shutting down: the handlers and the
\* periodic sweep call cleanup_connection, and the event loop does not
\* postpone the steps of a handler for ever.
SweepNext ==
    \/ HandlerNext
    \/ \E c \in ConnIds, t \in SessThreadIds :
          receive_chat(c, "invalid", t) /\ UNCHANGED <<otherVars, busVars>>
    \/ \E c \in ConnIds, t \in {"handler", "sweep"} :
          cleanup_connection(c, t) /\ UNCHANGED <<otherVars, busVars>>
    \/ \E c \in ConnIds, t \in {"handler", "sweep"} :
          cleanup_notified(c, t) /\ UNCHANGED otherVars
    \/ \E c \in ConnIds, t \in {"handler", "sweep"} :
          cleanup_task_waited(c, t) /\ UNCHANGED otherVars
    \/ \E c \in ConnIds, t \in {"handler", "sweep"} :
          cleanup_mcp_closed(c, t) /\ UNCHANGED otherVars
    \/ \E c \in ConnIds, t \in {"handler", "sweep"} :
          cleanup_viz_cleaned(c, t) /\ UNCHANGED otherVars
    \/ hour_passes /\ UNCHANGED <<otherVars, busVars>>
    \/ periodic_cleanup /\ UNCHANGED <<otherVars, busVars>>

SpecSweepFair ==
    Init /\ [][SweepNext]_vars /\ \A c \in ConnIds : WF_vars(handler_resumes(c))

\* ------------------------------------------------------------------------
\* The turns of a connection that stays active with its channel open
\* ------------------------------------------------------------------------

\* The frames that end a turn.
terminal_types == {"chat_done", "text_chat_response", "voice_response"}

is_terminal(message, connection_id) ==
    message.type \in terminal_types /\ message.origin = connection_id

\* websocket.send_text of the sender: the frame taken from message_queue is
\* written to the channel.
sender_send_text(connection_id) ==
    /\ per_connection_sender(connection_id)
    /\ channel' = [channel EXCEPT ![connection_id] =
          IF /\ loop_condition(connection_id)
             /\ context[connection_id].message_queue # <<>>
             /\ websocket_open[connection_id]
             /\ is_terminal(Head(context[connection_id].message_queue),
                            connection_id)
          THEN @ + 1 ELSE @]

\* The bus-bridge task writes the frame it took from its subscription queue
\* to the channel.
bus_bridge_send_text(connection_id) ==
    /\ queue_get(connection_id)
    /\ channel' = [channel EXCEPT ![connection_id] =
          IF /\ websocket_open[connection_id]
             /\ is_terminal(Head(subscribers[connection_id].queue),
                            connection_id)
          THEN @ + 1 ELSE @]

\* The handshake of a client that sends a valid configuration and stays.
TurnHandshake ==
    \E c \in ConnIds :
        /\ \/ register_connection(c)
           \/ connection_established(c)
           \/ \E f \in ProviderTypes : wait_for_configuration(c, f)
           \/ validate_config(c, TRUE)
           \/ initialize_mcp_client(c)
           \/ write_temp_config(c)
           \/ mcp_client_initialize(c)
           \/ \E ok \in BOOLEAN : mcp_client_initialized(c, ok)
           \/ mcp_client_ready(c)
           \/ initialize_viz_provider(c)
           \/ create_provider(c)
           \/ \E ok \in BOOLEAN : provider_created(c, ok)
           \/ viz_provider_ready(c)
           \/ connection_ready(c)
           \/ start_processor(c)
           \/ run_connection_loops(c)
           \/ per_connection_receiver(c)
        /\ UNCHANGED <<notChannel, busVars, channel>>

\* The records of the three sources reach the input queue.
TurnProducers ==
    \E c \in ConnIds, t \in SessThreadIds :
        /\ \/ receive_chat(c, "chat", t)
           \/ \E src \in ProducerSources :
                 enqueue_raw_output(c, Item(FALSE, src, t))
        /\ UNCHANGED <<notChannel, busVars, channel>>

\* The worker task.
TurnWorker ==
    \E c \in ConnIds :
        \/ /\ \/ processor_run(c)
              \/ poll_timeout(c)
              \/ broadcast_returned(c)
           /\ UNCHANGED <<notChannel, busVars, channel>>
        \/ /\ \/ \E prepared \in BOOLEAN : process_message_item(c, prepared)
              \/ \E d \in BOOLEAN, prepared \in BOOLEAN :
                    enhancement_decision(c, d, prepared)
              \/ stream_chunk(c)
              \/ stream_done(c)
              \/ stream_raises(c)
           /\ UNCHANGED <<notChannel, channel>>

TurnSender == \E c \in ConnIds : sender_send_text(c) /\ UNCHANGED <<notChannel, busVars>>

TurnBridgeSubscribes ==
    \E c \in ConnIds : bus_bridge(c) /\ UNCHANGED <<notChannel, connVars, channel>>

TurnBridge ==
    \E c \in ConnIds : bus_bridge_send_text(c) /\ UNCHANGED <<notChannel, connVars>>

TurnDeliver == broadcast_deliver /\ UNCHANGED <<notChannel, connVars, channel>>

TurnNext ==
    \/ TurnHandshake
    \/ TurnProducers
    \/ TurnWorker
    \/ TurnSender
    \/ TurnBridgeSubscribes
    \/ TurnBridge
    \/ TurnDeliver

\* The event loop runs every task that can run: the handler, the worker, the
\* sender, the bus-bridge and the delivery tasks of a broadcast.  Producers
\* are not obliged to produce.
SpecTurnFair ==
    /\ Init /\ [][TurnNext]_vars
    /\ WF_vars(TurnHandshake)
    /\ WF_vars(TurnWorker)
    /\ WF_vars(TurnSender)
    /\ WF_vars(TurnBridgeSubscribes)
    /\ WF_vars(TurnBridge)
    /\ WF_vars(TurnDeliver)

\* The operations of the connection mapper, in any order.
MapperNext ==
    \/ \E w \in MapperWsIds, r \in MapperRtcIds :
          link_connections(w, r) /\ UNCHANGED notMapper
    \/ \E r \in MapperRtcIds : unlink_rtc(r) /\ UNCHANGED notMapper
    \/ \E w \in MapperWsIds : unlink_ws(w) /\ UNCHANGED notMapper
    \/ \E r \in MapperRtcIds : link_time_expires(r) /\ UNCHANGED notMapper
    \/ cleanup_stale_connections /\ UNCHANGED notMapper

SpecMapper == Init /\ [][MapperNext]_vars

\* Media pipelines are registered and unregistered through the voice manager
\* while their connections come and go.
VoiceManagerNext ==
    \/ \E c \in VoiceConnIds :
          register_connection(c)
             /\ UNCHANGED <<vnVars, busVars, voiceVars, decider, moreVars>>
    \/ \E c \in VoiceConnIds :
          connection_established(c)
             /\ UNCHANGED <<vnVars, busVars, voiceVars, decider, moreVars>>
    \/ \E c \in VoiceConnIds :
          client_disconnect(c)
             /\ UNCHANGED <<vnVars, busVars, voiceVars, decider, moreVars>>
    \/ \E c \in VoiceConnIds :
          wait_for_configuration(c, "timeout")
             /\ UNCHANGED <<vnVars, busVars, voiceVars, decider, moreVars>>
    \/ \E c \in VoiceConnIds, t \in ThreadIds :
          voice_manager_register_voice_agent(c, t)
             /\ UNCHANGED notVoiceManager
    \/ \E c \in VoiceConnIds :
          voice_manager_unregister_voice_agent(c)
             /\ UNCHANGED <<notVoiceManager, busVars>>
    \/ \E c \in VoiceConnIds :
          cleanup_connection(c, "handler")
             /\ UNCHANGED <<vnVars, busVars, voiceVars, decider, moreVars>>
    \/ \E c \in VoiceConnIds :
          cleanup_notified(c, "handler")
             /\ UNCHANGED <<vnVars, voiceVars, decider, moreVars>>

SpecVoiceManager == Init /\ [][VoiceManagerNext]_vars

\* A client that sends chat frames and user-interaction frames to its
\* handler.
InteractionNext ==
    \/ HandlerNext
    \/ \E c \in ConnIds, f \in {"chat", "user_interaction"},
          t \in SessThreadIds :
          receive_chat(c, f, t) /\ UNCHANGED <<otherVars, busVars>>
    \/ \E c \in ConnIds : handler_resumes(c)

SpecInteraction == Init /\ [][InteractionNext]_vars

\* ========================================================================
\* Claims about the session registry
\* ========================================================================

\* C3: in every reachable state of the registry the reverse indexes agree
\* with the session slots: a control id w resolves to session s exactly when
\* s's current control id is w, and likewise for media ids.  (That a session
\* holds at most one id per slot is built into SessionInfo.)
C3_IndexesAgreeWithSlots ==
    /\ \A s \in SessionIds, w \in WsIds :
          (DictGet(ws_to_session, w) = s) <=>
          (s \in DOMAIN sessions /\ sessions[s].current_ws_connection_id = w)
    /\ \A s \in SessionIds, r \in RtcIds :
          (DictGet(rtc_to_session, r) = s) <=>
          (s \in DOMAIN sessions /\ sessions[s].current_rtc_connection_id = r)

\* C9: binding a new control id W2 to a session whose control slot holds W1
\* evicts W1: afterwards the session's control id is W2, the control reverse
\* index holds exactly W2 for that session, and W1 no longer resolves to it.
C9_RebindEvictsOld ==
    (sm_last.op = "register_ws" /\ sm_last.old \notin {None, sm_last.id}) =>
        /\ sm_last.session_id \in DOMAIN sessions
        /\ sessions[sm_last.session_id].current_ws_connection_id = sm_last.id
        /\ {w \in DOMAIN ws_to_session : ws_to_session[w] = sm_last.session_id}
              = {sm_last.id}
        /\ DictGet(ws_to_session, sm_last.old) # sm_last.session_id

\* A control bind has just replaced a different control id.
C9_Witness ==
    /\ sm_last.op = "register_ws"
    /\ sm_last.old \notin {None, sm_last.id}

\* C10 as claimed: a media bind succeeds only when the named session
\* currently has a control binding.  (A successful media bind leaves the
\* control slot as it was, so the slot read here is the one the bind saw.)
C10_MediaBindNeedsControl ==
    (sm_last.op = "register_rtc" /\ sm_last.result) =>
        sessions[sm_last.session_id].current_ws_connection_id # None

\* C10 as amended: a media bind succeeds exactly when the named session is
\* known to the registry, whether or not its control slot is bound; a bind
\* that names an unknown session is rejected and creates or modifies nothing.
C10_MediaBindNeedsKnownSession ==
    [][sm_last'.op = "register_rtc" =>
          /\ sm_last'.result = (sm_last'.session_id \in DOMAIN sessions)
          /\ ~sm_last'.result =>
                UNCHANGED <<sessions, ws_to_session, rtc_to_session>>]_vars

\* A media bind has just succeeded on a session whose control slot is empty.
C10_Witness ==
    /\ sm_last.op = "register_rtc"
    /\ sm_last.result
    /\ sessions[sm_last.session_id].current_ws_connection_id = None

\* C8: once the control channel of a session has been re-bound, every voice
\* frame of the session's media pipeline goes to the control channel that the
\* session holds when the frame is published, and to no other.
C8_VoiceFollowsRebind ==
    routed.linked # None => routed.connection_id = routed.linked

\* ========================================================================
\* Claims about the fan-out bus
\* ========================================================================

\* C1: in every reachable state of the bus, no frame on a subscription's
\* queue carries a connection id other than the subscription's, nor a thread
\* id other than the subscription's when both thread ids are non-null.
C1_QueuedFramesBelongToSubscription ==
    \A c \in DOMAIN subscribers :
        \A i \in DOMAIN subscribers[c].queue :
            LET message == subscribers[c].queue[i]
            IN  /\ message.connection_id # None =>
                      message.connection_id = subscribers[c].connection_id
                /\ (message.thread_id # None /\ subscribers[c].voice_thread_id # None) =>
                      message.thread_id = subscribers[c].voice_thread_id

\* C12: broadcast delivers a frame to a subscription if and only if the
\* frame's kind is a voice kind, its recipient connection id, if present, is
\* the subscription's, and its thread id, if present while the subscription
\* has one, is the subscription's.  When broadcast chooses its recipients
\* they are exactly the subscriptions of this predicate, and when it
\* delivers, the frame is appended to the queues of the chosen subscriptions
\* with room and every other queue is unchanged.
C12_DeliversIffMatches ==
    [][/\ Len(in_flight') > Len(in_flight) =>
             LET b == in_flight'[Len(in_flight')]
             IN  b.live =
                    {c \in DOMAIN subscribers :
                        /\ b.message.type \in {"user_transcription",
                              "immediate_voice_response", "voice_response"}
                        /\ b.message.connection_id \in {None, c}
                        /\ \/ b.message.thread_id = None
                           \/ subscribers[c].voice_thread_id = None
                           \/ b.message.thread_id = subscribers[c].voice_thread_id}
       /\ stats'.total_broadcasts > stats.total_broadcasts =>
             LET b == Head(in_flight)
             IN  \A c \in DOMAIN subscribers :
                    subscribers'[c].queue =
                       IF c \in b.live /\ Len(subscribers[c].queue) < QueueMax
                       THEN Append(subscribers[c].queue, b.message)
                       ELSE subscribers[c].queue]_vars

\* A on thread 1 and B on thread 2; the one broadcast so far, a
\* voice_response of thread 1, is on A's queue and B's queue is empty.
C12_Witness ==
    \E a, b \in DOMAIN subscribers :
        /\ subscribers[a].voice_thread_id = 1
        /\ subscribers[b].voice_thread_id = 2
        /\ subscribers[a].queue = <<Message("voice_response", None, 1, None)>>
        /\ subscribers[b].queue = <<>>
        /\ stats.total_broadcasts = 1
        /\ stats.total_deliveries = 1

\* C13: when the queue of a matching subscriber is full during a broadcast,
\* the frame is dropped for that subscriber only: its queue is unchanged, the
\* other matching subscribers receive the frame, failed_deliveries grows by
\* the number of full queues, the deliveries counted (the value broadcast
\* returns) are the successful ones, and broadcast completes.
C13_FullQueueDropsForThatSubscriberOnly ==
    [][stats'.total_broadcasts > stats.total_broadcasts =>
          LET b == Head(in_flight)
              full == {c \in b.live : Len(subscribers[c].queue) >= QueueMax}
              full_orphans == {c \in DOMAIN b.orphans : b.orphans[c] >= QueueMax}
              failed == Cardinality(full) + Cardinality(full_orphans)
              attempted == Cardinality(b.live) + Cardinality(DOMAIN b.orphans)
          IN  /\ \A c \in full : subscribers'[c].queue = subscribers[c].queue
              /\ \A c \in b.live \ full :
                    subscribers'[c].queue = Append(subscribers[c].queue, b.message)
              /\ stats'.failed_deliveries = stats.failed_deliveries + failed
              /\ stats'.total_deliveries =
                    stats.total_deliveries + attempted - failed
              /\ stats'.total_broadcasts = stats.total_broadcasts + 1]_vars

\* Subscriber a holds two frames addressed to it, its queue is full, and the
\* third broadcast, addressed to nobody, failed for a and reached b.
C13_Witness ==
    \E a, b \in DOMAIN subscribers :
        /\ a # b
        /\ Len(subscribers[a].queue) = QueueMax
        /\ \A i \in DOMAIN subscribers[a].queue :
              subscribers[a].queue[i].connection_id = a
        /\ Len(subscribers[b].queue) = 1
        /\ subscribers[b].queue[1].connection_id = None
        /\ stats.failed_deliveries = 1
        /\ stats.total_deliveries = QueueMax + 1
        /\ stats.total_broadcasts = QueueMax + 1

\* ========================================================================
\* Claims about the connection registry
\* ========================================================================

LegalTransitions ==
    {<<"connecting", "config_received">>, <<"config_received", "validating">>,
     <<"validating", "mcp_initializing">>,
     <<"mcp_initializing", "viz_initializing">>,
     <<"viz_initializing", "ready">>, <<"ready", "active">>,
     <<"disconnecting", "closed">>}
    \cup (ConnectionState \X {"error", "disconnecting"})

\* C6: every change of a connection's state is one of the legal transitions
\* of the table; no other (from, to) pair occurs in any execution.
C6_OnlyLegalTransitions == transitions \subseteq LegalTransitions

worker_exists(connection_id) ==
    processor[connection_id].task \notin {"none", "done"}
sender_exists(connection_id) ==
    tasks[connection_id].sender \in {"created", "running"}

\* C7: whenever a connection of the registry is in state ready or active,
\* exactly one worker task and exactly one sender task exist for it.
C7_WorkerAndSenderWhileReadyOrActive ==
    \A c \in ConnIds :
        (registered(c) /\ context[c].state \in {"ready", "active"}) =>
            (worker_exists(c) /\ sender_exists(c))

\* Every cleanup_connection of the connection has returned and its handler
\* has ended.
torn_down(connection_id) ==
    /\ handler_pc[connection_id] = "closed"
    /\ \A t \in Triggers :
          cleanup_pc[connection_id][t] \in {"idle", "done", "raised", "cancelled"}

\* C5: under any interleaving of the teardown triggers of a connection
\* (handler exit, periodic sweep, manager shutdown), no teardown raises, no
\* external handle of the connection is closed more than once, and after
\* teardown every handle the connection opened is closed.
C5_HandlesClosedExactlyOnce ==
    \A c \in ConnIds :
        /\ \A t \in Triggers : cleanup_pc[c][t] # "raised"
        /\ handles[c].mcp_closes <= 1
        /\ handles[c].viz_cleanups <= 1
        /\ handles[c].unlinks <= 1
        /\ torn_down(c) =>
              /\ handles[c].mcp_client # "open"
              /\ handles[c].visualization_provider # "open"
              /\ handles[c].temp_file # "exists"
              /\ ~worker_exists(c)

\* ========================================================================
\* Claims about the per-connection worker
\* ========================================================================

\* C2: a frame produced by the worker of a connection (the voice_response
\* frames of media-sourced turns and their error variants included) never
\* lands on the subscription queue or the output queue of another connection.
C2_WorkerFramesStayOnOwnConnection ==
    /\ \A c \in DOMAIN subscribers :
          \A i \in DOMAIN subscribers[c].queue :
              subscribers[c].queue[i].origin \in {None, c}
    /\ \A c \in ConnIds :
          \A i \in DOMAIN context[c].message_queue :
              context[c].message_queue[i].origin \in {None, c}

\* enhancement_started? ui_token* chat_done
enhanced_sequence(frames) ==
    /\ frames # <<>>
    /\ frames[Len(frames)] = "chat_done"
    /\ \A i \in 1..(Len(frames) - 1) :
          \/ frames[i] \in {"c1_token", "html_token"}
          \/ i = 1 /\ frames[i] = "enhancement_started"

\* C4: on every execution path of per-record processing, the frames of a
\* turn form enhancement_started? ui_token* chat_done when the turn is
\* enhanced, and a single text_chat_response or voice_response when not.
C4_TurnFrameSequence ==
    \A c \in ConnIds :
        processor[c].turn.finished =>
            IF processor[c].turn.enhanced = TRUE
            THEN enhanced_sequence(processor[c].turn.frames)
            ELSE processor[c].turn.frames \in
                    {<<"text_chat_response">>, <<"voice_response">>}

\* ========================================================================
\* Claims about the media pipelines
\* ========================================================================

\* C11: voice-over text produced while processing a record of a connection
\* is injected only into the media pipeline registered on that connection,
\* whatever the media-thread ids of the registered connections are.
C11_VoiceOverStaysOnOwnPipeline ==
    \A c \in VoiceConnIds : injected[c] \subseteq {c}

\* ========================================================================
\* Claims about failures of the handshake and about teardown
\* ========================================================================

\* C14: once a connection is in state error it never returns to a state of
\* the handshake nor to ready or active: the only states entered from error
\* are disconnecting and closed, so the state does not oscillate between
\* error and a handshake state after a failed send of a connection_state
\* frame.
C14_NoReturnFromError ==
    \A p \in transitions :
        p[1] = "error" => p[2] \in {"disconnecting", "closed"}

\* C15: the periodic sweep lists for eviction only connections whose last
\* activity is more than an hour old; a connection that has sent or received
\* a frame within the last hour is never on the list of a sweep.
C15_SweepEvictsOnlyIdleConnections ==
    [][(sweep.task = "sleeping" /\ sweep'.task = "cleaning") =>
          \A c \in Range(sweep'.stale_connections) :
              context[c].last_activity \in {"old", "loop_old"}]_vars

\* configure_connection is about to return False for connection_id.
configure_returns_false(connection_id) == handler_pc[connection_id] = "failed"

C17_TornDownIsClosed ==
    \A c \in ConnIds : torn_down(c) => context[c].state = "closed"

\* C18: a call of cleanup_connection that has run to its end, whether it
\* returned or raised at the deletion, leaves the connection out of the
\* registry, whatever failed on the way (the send of disconnecting, the
\* wait for the worker, the close of the tool-server client, the cleanup of
\* the UI provider).
C18_TeardownAlwaysRemoves ==
    \A c \in ConnIds : \A t \in Triggers :
        cleanup_pc[c][t] \in {"done", "raised"} => ~registered(c)

\* A teardown whose send of disconnecting failed on a closed websocket has
\* closed the tool-server client and the UI provider, removed the temporary
\* file and removed the connection.
C18_Witness ==
    \E c \in ConnIds :
        /\ cleanup_pc[c]["handler"] = "done"
        /\ ~websocket_open[c]
        /\ context[c].state = "error"
        /\ <<"disconnecting", "error">> \in transitions
        /\ handles[c].mcp_closes > 0 /\ handles[c].viz_cleanups > 0
        /\ handles[c].unlinks > 0
        /\ ~registered(c)

\* C19: once the teardown of a connection has completed, the bus holds no
\* subscription under the connection's id and the connection's media
\* linkage (agent and media-thread id) is null, whether or not a media
\* pipeline was registered on the connection.
C19_NoSubscriptionAfterTeardown ==
    \A c \in ConnIds :
        torn_down(c) =>
            /\ c \notin DOMAIN subscribers
            /\ context[c].voice_agent = None
            /\ context[c].voice_thread_id = None

\* C20: in the step that removes a connection from the registry, the
\* message queue and the raw output queue of its context are both empty.
C20_QueuesEmptyAtRemoval ==
    [][\A c \in ConnIds :
          (registered(c) /\ ~registered(c)') =>
              /\ context'[c].message_queue = <<>>
              /\ context'[c].raw_output_queue = <<>>]_vars

\* A connection has been removed whose teardown took more than one item out
\* of its queues.
C20_Witness ==
    \E c \in ConnIds :
        /\ ~registered(c) /\ cleanup_pc[c]["handler"] = "done"
        /\ handles[c].drained > 1
        /\ context[c].message_queue = <<>>
        /\ context[c].raw_output_queue = <<>>

\* ========================================================================
\* Claims about the tasks of a connection
\* ========================================================================

C22_FramesWrittenInOrderProduced ==
    [][\A c \in ConnIds :
          LET q == context[c].message_queue
              q2 == context'[c].message_queue
              added == SubSeq(q2, Len(q) + 1, Len(q2))
              produced == SelectSeq(processor'[c].turn.frames,
                              LAMBDA k : k \notin {"voice_response",
                                  "immediate_voice_response", "user_transcription"})
          IN  q2 # q =>
                \/ q # <<>> /\ q2 = Tail(q) /\ sender_exists(c)
                \/ /\ Len(q2) > Len(q) /\ SubSeq(q2, 1, Len(q)) = q
                   /\ context'[c].metrics.messages_sent #
                         context[c].metrics.messages_sent =>
                         /\ Len(added) <= Len(produced)
                         /\ kinds(added) = SubSeq(produced,
                               Len(produced) - Len(added) + 1, Len(produced))
                \/ q2 = <<>> /\ registered(c) /\ ~registered(c)']_vars

\* The worker has finished a turn of at least two frames for the control
\* channel and the sender has written them all to the open websocket.
C22_Witness ==
    \E c \in ConnIds :
        /\ registered(c) /\ websocket_open[c]
        /\ processor[c].turn.finished
        /\ Len(SelectSeq(processor[c].turn.frames,
                  LAMBDA k : k \in {"c1_token", "html_token",
                                    "text_chat_response"})) >= 2
        /\ context[c].message_queue = <<>>
        /\ tasks[c].sender = "running"

\* ========================================================================
\* Claims about failures inside a turn of the worker
\* ========================================================================

\* C23: in the step in which the stream of the enhanced UI raises for a
\* record, the worker answers with a frame shaped like a simple response and
\* the error metric of the connection grows by one.
C23_StreamFailureCountsAsError ==
    [][\A c \in ConnIds :
          LET frames == processor[c].turn.frames
              frames2 == processor'[c].turn.frames
          IN  (/\ processor[c].task = "streaming"
               /\ Len(frames2) = Len(frames) + 1
               /\ frames2[Len(frames2)] \in
                     {"text_chat_response", "voice_response"}) =>
                  context'[c].metrics.errors = context[c].metrics.errors + 1]_vars

\* C24: a step in which the processing of a record fails (the stream
\* raises, or the error response is sent) leaves the state of the connection
\* as it is, and the worker of an active connection goes on: it is back at
\* its queue, or waits for the broadcast of the answer and then is.
C24_TurnFailureKeepsConnectionActive ==
    [][\A c \in ConnIds :
          LET frames == processor[c].turn.frames
              frames2 == processor'[c].turn.frames
              stream_raised ==
                  /\ processor[c].task = "streaming"
                  /\ Len(frames2) = Len(frames) + 1
                  /\ frames2[Len(frames2)] \in
                        {"text_chat_response", "voice_response"}
              error_sent ==
                  context'[c].metrics.errors > context[c].metrics.errors
          IN  (stream_raised \/ error_sent) =>
                  /\ context'[c].state = context[c].state
                  /\ handler_pc'[c] = handler_pc[c]
                  /\ context[c].state = "active" =>
                        /\ processor'[c].task \in {"poll", "broadcasting"}
                        /\ processor'[c].running]_vars

\* After a record whose processing failed, the worker of a connection that
\* is still active has fully processed a second record, without enhancement.
C24_Witness ==
    \E c \in ConnIds :
        /\ registered(c) /\ context[c].state = "active"
        /\ context[c].metrics.errors = 1
        /\ context[c].metrics.messages_received = 2
        /\ processor[c].turn.frames \in
              {<<"text_chat_response">>, <<"voice_response">>}
        /\ processor[c].turn.finished
        /\ processor[c].task = "poll"

\* ------------------------------------------------------------------------
\* Claims about the enhancement decider
\* ------------------------------------------------------------------------

\* C25: whenever the model requested a tool call, the decision returned for
\* that utterance has displayEnhancement = TRUE.
C25_ToolRequestForcesEnhancement ==
    decider.pc = "returned" /\ decider.func_name # "none"
        => decider.result.displayEnhancement

C27_SilentServerReturnsErrorString ==
    decider.unanswered # "none"
        => /\ decider.pc \in {"stream", "returned"}
           /\ decider.tool_result = "Error: Tool call timed out"

\* ------------------------------------------------------------------------
\* Claims about the wait for the configuration frame
\* ------------------------------------------------------------------------

C29_DuplicateInteractionShownOnce ==
    [][\A c \in ConnIds :
          LET n == handles[c].interactions
              n2 == handles'[c].interactions
              out == context[c].message_queue
              out2 == context'[c].message_queue
          IN  /\ (n = 0 /\ n2 = 1) =>
                    /\ Len(out2) = Len(out) + 1
                    /\ out2[Len(out2)].type = "user_message"
              /\ (n = 1 /\ n2 = 2) =>
                    /\ out2 = out
                    /\ context'[c].raw_output_queue =
                           context[c].raw_output_queue]_vars

\* ------------------------------------------------------------------------
\* Claims about leaving the bus
\* ------------------------------------------------------------------------

\* C30: when unsubscribe(connection_id) returns, the queue of the
\* subscription it removed is empty: every suspended broadcast that holds a
\* delivery task for that subscription sees it with no frame queued.
C30_RemovedSubscriptionIsDrained ==
    [][\A c \in WsIds :
          (c \in DOMAIN subscribers /\ c \notin DOMAIN subscribers') =>
              /\ Len(in_flight') = Len(in_flight)
              /\ \A i \in DOMAIN in_flight :
                    c \in in_flight[i].live =>
                        /\ c \in DOMAIN in_flight'[i].orphans
                        /\ in_flight'[i].orphans[c] = 0]_vars

\* A subscription that received a frame has been removed while a broadcast
\* still held a delivery task for it.
C30_Witness ==
    \E c \in WsIds, i \in DOMAIN in_flight :
        /\ c \notin DOMAIN subscribers
        /\ c \in DOMAIN in_flight[i].orphans
        /\ in_flight[i].orphans[c] = 0
        /\ stats.total_deliveries > 0
        /\ stats.active_subscribers = 0

\* ------------------------------------------------------------------------
\* Claims about repeated and late calls of the session registry
\* ------------------------------------------------------------------------

\* C31: a bind that repeats the binding a session already holds (the same
\* control id with the session's current thread, or the same media id) is a
\* no-op: the sessions with their slots, threads and histories and both
\* reverse indexes are the same before and after it.
C31_RepeatedBindIsNoOp ==
    [][LET s == sm_last'.session_id
           id == sm_last'.id
           same_thread ==
               sessions'[s].current_thread_id = sessions[s].current_thread_id
           repeated_ws ==
               /\ sm_last'.op = "register_ws"
               /\ s \in DOMAIN sessions
               /\ sessions[s].current_ws_connection_id = id
               /\ same_thread
           repeated_rtc ==
               /\ sm_last'.op = "register_rtc"
               /\ sm_last'.result
               /\ sessions[s].current_rtc_connection_id = id
               /\ same_thread
       IN  (repeated_ws \/ repeated_rtc) =>
               /\ sessions' = sessions
               /\ ws_to_session' = ws_to_session
               /\ rtc_to_session' = rtc_to_session]_vars

\* C36: a late unbind of an id that a rebinding has evicted changes nothing
\* of the binding that replaced it: in every unbind of a control id w, each
\* session whose current control id is another id keeps that id, and the
\* reverse-index entry of that id stays as it is; likewise for media ids.
C36_LateUnbindKeepsNewBinding ==
    [][/\ sm_last'.op = "unregister_ws" =>
             \A s \in DOMAIN sessions :
                 LET w2 == sessions[s].current_ws_connection_id
                 IN  w2 \notin {None, sm_last'.id} =>
                        /\ s \in DOMAIN sessions'
                        /\ sessions'[s] = sessions[s]
                        /\ DictGet(ws_to_session', w2) = DictGet(ws_to_session, w2)
       /\ sm_last'.op = "unregister_rtc" =>
             \A s \in DOMAIN sessions :
                 LET r2 == sessions[s].current_rtc_connection_id
                 IN  r2 \notin {None, sm_last'.id} =>
                        /\ s \in DOMAIN sessions'
                        /\ sessions'[s] = sessions[s]
                        /\ DictGet(rtc_to_session', r2) = DictGet(rtc_to_session, r2)
      ]_vars

\* The unbind of a control id that resolves to no session has returned
\* False while a session is bound to another control id, with its
\* reverse-index entry: the teardown of W1 after W2 took its place.
C36_Witness ==
    /\ sm_last.op = "unregister_ws"
    /\ sm_last.session_id = None
    /\ ~sm_last.result
    /\ \E s \in DOMAIN sessions :
          LET w2 == sessions[s].current_ws_connection_id
          IN  /\ w2 \notin {None, sm_last.id}
              /\ DictGet(ws_to_session, w2) = s

C32_FragmentsConcatenateToHtmlContent ==
    LET htmlContent == json_loads(viz.response)
    IN  /\ viz.pc = "streaming" =>
              /\ Len(viz.yielded) <= Len(htmlContent)
              /\ viz.yielded = SubSeq(htmlContent, 1, Len(viz.yielded))
        /\ viz.pc = "done" => viz.yielded = htmlContent

\* ------------------------------------------------------------------------
\* Claims about the connection configuration
\* ------------------------------------------------------------------------

\* C33: a configuration is accepted only if its number of servers does not
\* exceed its own max_servers.
C33_AcceptedOnlyWithinOwnMaximum ==
    client_config.accepted = "yes" =>
        client_config.servers.len <= client_config.max_servers

\* ------------------------------------------------------------------------
\* Claims about deliveries that race with the removal of a subscription
\* ------------------------------------------------------------------------

\* C34: no frame is enqueued on a subscription's queue after unsubscribe for
\* its connection has completed: when a broadcast that took its snapshot
\* before the unsubscribe runs its delivery tasks and every subscription it
\* chose belongs to a connection that has been unsubscribed since, no
\* delivery succeeds.
C34_NoDeliveryAfterUnsubscribe ==
    [][(/\ in_flight # <<>>
        /\ stats'.total_broadcasts = stats.total_broadcasts + 1
        /\ Head(in_flight).live = {}
        /\ DOMAIN Head(in_flight).orphans \cap DOMAIN subscribers = {})
          => stats'.total_deliveries = stats.total_deliveries]_vars

\* ------------------------------------------------------------------------
\* Claims about the terminal frame of a turn
\* ------------------------------------------------------------------------

\* C35: for every non-empty record a worker has taken, a terminal frame of
\* that turn is eventually written to the connection's control channel,
\* unless the connection leaves active or its channel is closed: once k
\* records were taken, k terminal frames are eventually written.
C35_TurnEndsWithTerminalFrame ==
    \A c \in ConnIds, k \in 1..MaxTurns :
        (context[c].metrics.messages_received >= k)
            ~> \/ channel[c] >= k
               \/ context[c].state # "active"
               \/ ~websocket_open[c]

\* ------------------------------------------------------------------------
\* Claims about the start of the worker
\* ------------------------------------------------------------------------

\* C38: the first evaluation of the loop condition by the worker task that
\* was created at ready observes the state active, whenever the task gets
\* to run (it was not cancelled before its first step).
C38_FirstEvaluationObservesActive ==
    [][\A c \in ConnIds :
          (/\ processor[c].task = "created"
           /\ processor'[c].task # "created"
           /\ ~processor[c].cancel)
             => context[c].state = "active"]_vars

\* C38 as amended: the first evaluation of the loop condition never observes
\* a state before active.  It observes active, and the worker polls, or a
\* state the connection went to after active (error after a failed send of
\* the ACTIVE notification, disconnecting in a teardown), and the worker ends
\* at once.
C38_FirstEvaluationNeverBeforeActive ==
    [][\A c \in ConnIds :
          (/\ processor[c].task = "created"
           /\ processor'[c].task # "created"
           /\ ~processor[c].cancel)
             => /\ context[c].state \in {"active", "error", "disconnecting"}
                /\ context[c].state = "active" => processor'[c].task = "poll"
                /\ context[c].state # "active" =>
                      /\ processor'[c].task = "done"
                      /\ \E x \in ConnectionState : <<"active", x>> \in transitions
      ]_vars

\* The worker has taken its first step and polls while the handler is still
\* in the send of the ACTIVE notification.
C38_Witness ==
    \E c \in ConnIds :
        /\ handler_pc[c] = "active"
        /\ context[c].state = "active"
        /\ processor[c].task = "poll"
        /\ processor[c].running

\* ------------------------------------------------------------------------
\* Claims about the voice manager
\* ------------------------------------------------------------------------

\* C39: each entry of the thread-to-connection map points to a connection
\* that is in the registry and whose media-thread id is the entry's thread.
C39_ThreadMapPointsToLivePipeline ==
    \A t \in DOMAIN thread_to_connection_map :
        LET c == thread_to_connection_map[t]
        IN  /\ registered(c)
            /\ context[c].voice_thread_id = t

\* ------------------------------------------------------------------------
\* Claims about the connection mapper
\* ------------------------------------------------------------------------

\* C40: the two maps of the connection mapper are mutual inverses:
\* rtc_to_ws[r] = w if and only if ws_to_rtc[w] = r.
C40_MapsAreMutualInverses ==
    \A r \in MapperRtcIds, w \in MapperWsIds :
        (r \in DOMAIN mapper.rtc_to_ws /\ mapper.rtc_to_ws[r] = w)
            <=> (w \in DOMAIN mapper.ws_to_rtc /\ mapper.ws_to_rtc[w] = r)

\* A pair is linked after the previous partners of both ids were evicted or
\* unlinked: another media id and another control id are known to the
\* mapper and no longer mapped.
C40_Witness ==
    \E r \in MapperRtcIds, w \in MapperWsIds :
        /\ r \in DOMAIN mapper.rtc_to_ws /\ mapper.rtc_to_ws[r] = w
        /\ \E r2 \in DOMAIN mapper.connection_times :
              r2 # r /\ r2 \notin DOMAIN mapper.rtc_to_ws
        /\ \E w2 \in mapper.active_ws :
              w2 # w /\ w2 \notin DOMAIN mapper.ws_to_rtc

====
